---- MODULE Spec2Model ----
(***************************************************************************)
(* gtfs2shp: shape aggregation and sub-segment geometry.                   *)
(*                                                                         *)
(* Number representation.                                                  *)
(*  - A distance (shape_dist_traveled) is an integer number of 1/32 of a   *)
(*    feed unit, or NaN.  Every such value is exactly representable        *)
(*    as float32, so the float32 <-> float64 conversions of the source are *)
(*    exact on it.                                                         *)
(*  - A coordinate is an integer number of 1/CoordScale degrees.           *)
(*    CoordScale is a common multiple of every difference of two shape     *)
(*    point distances, so the linear interpolation of the source is        *)
(*    computed exactly (floating point rounding is not modelled).          *)
(*  - Shape points lie on the equator (Lat = 0).  There the haversine      *)
(*    great-circle distance of two points is R * DEG_TO_RAD * |lonB-lonA|, *)
(*    so lengths are integers in units of R * DEG_TO_RAD / CoordScale m.   *)
(***************************************************************************)
EXTENDS Integers, Sequences, FiniteSets, TLC

\* ------------------------------------------------------------------ bounds
\* most points of a shape
MaxPts == 3
\* shape point distances lie on the grid 0, 500, ..., 500 * MaxStep
MaxStep == 4
\* longitudes are 0 .. MaxCoord degrees
MaxCoord == 2

\* ------------------------------------------------------------- arithmetic
\* math.NaN(): the absent distance; every defined distance of the model is >= 0
NaN == -1

IsNaN(x) == x = NaN

Abs(x) == IF x < 0 THEN -x ELSE x

RECURSIVE GCD(_, _)
GCD(a, b) == IF b = 0 THEN a ELSE GCD(b, a % b)

RECURSIVE LCMUpTo(_)
LCMUpTo(n) == IF n <= 1 THEN 1 ELSE (LCMUpTo(n - 1) * n) \div GCD(LCMUpTo(n - 1), n)

\* a distance of u feed units, in 1/32 feed units
Units(u) == u * 32

\* the k-th grid distance, 500 * k feed units
GridDist(k) == Units(500 * k)

CoordScale == GridDist(1) * LCMUpTo(MaxStep)

\* a coordinate of n degrees
Deg(n) == n * CoordScale

GridDists == {GridDist(k) : k \in 0..MaxStep}

\* ------------------------------------------------------------- haversine
\* aggrshape.go haversine: for two points of the equator the formula gives
\* |lonB - lonA| (in radians, times the earth radius); the second summand is
\* the same along a meridian and is 0 for every point of this model.
haversine(latA, lonA, latB, lonB) == Abs(latB - latA) + Abs(lonB - lonA)

haversineP(a, b) == haversine(a.Lat, a.Lon, b.Lat, b.Lon)

\* ------------------------------------------------- CalcMeterLength
\* the boundary scan of CalcMeterLength, loop index i, 0-based as in the source
RECURSIVE CalcScan(_, _, _, _, _, _)
CalcScan(Points, From, To, i, first, haveFirst) ==
    IF i >= Len(Points)
    THEN [first |-> first, last |-> Len(Points) - 1]
    ELSE LET d == Points[i + 1].Dist_traveled IN
         IF IsNaN(d)
         THEN [first |-> 0, last |-> Len(Points) - 1]
         ELSE LET f  == IF ~haveFirst /\ d >= From THEN i ELSE first
                  hf == haveFirst \/ d >= From
              IN  IF hf /\ d > To
                  THEN [first |-> f, last |-> i - 1]
                  ELSE CalcScan(Points, From, To, i + 1, f, hf)

\* lines 75-98: first and last
CalcRange(Points, From, To) ==
    IF ~IsNaN(From) /\ ~IsNaN(To)
    THEN CalcScan(Points, From, To, 0, 0, FALSE)
    ELSE [first |-> 0, last |-> Len(Points) - 1]

\* lines 103-109 and 115-121: the point at distance at on the line through a
\* and b
CalcInterpolate(a, b, at) ==
    LET latdiff  == b.Lat - a.Lat
        londiff  == b.Lon - a.Lon
        dMeasure == b.Dist_traveled - a.Dist_traveled
    IN  [Lat |-> a.Lat + (latdiff \div dMeasure) * (at - a.Dist_traveled),
         Lon |-> a.Lon + (londiff \div dMeasure) * (at - a.Dist_traveled)]

\* lines 126-128: the sum over i .. last (1-based: the pairs (i, i + 1))
RECURSIVE CalcPairSum(_, _, _)
CalcPairSum(Points, i, last) ==
    IF i > last THEN 0
    ELSE haversineP(Points[i], Points[i + 1]) + CalcPairSum(Points, i + 1, last)

\* AggrShape.CalcMeterLength: the value stored in MeterLength; panic is TRUE
\* when the run ends in an index-out-of-range panic (Points[last], last = -1)
\* and nothing is stored
CalcMeterLength(Points, From, To) ==
    LET r     == CalcRange(Points, From, To)
        first == r.first
        last  == r.last
        head  == IF first > 0
                 THEN LET p == CalcInterpolate(Points[first], Points[first + 1], From)
                      IN  haversine(p.Lat, p.Lon, Points[first + 1].Lat, Points[first + 1].Lon)
                 ELSE 0
        tail  == IF last < Len(Points) - 1
                 THEN LET p == CalcInterpolate(Points[last + 1], Points[last + 2], To)
                      IN  haversine(p.Lat, p.Lon, Points[last + 1].Lat, Points[last + 1].Lon)
                 ELSE 0
    IN  IF last < Len(Points) - 1 /\ last < 0
        THEN [panic |-> TRUE, MeterLength |-> 0]
        ELSE [panic |-> FALSE,
              MeterLength |-> head + tail + CalcPairSum(Points, first + 1, last)]

\* ------------------------------------- gtfsShapePointsToShpLinePoints
\* variant of the scan: a point at distance from is not taken as first (> for >=)
RECURSIVE ShpScan_StrictFrom(_, _, _, _, _, _)
ShpScan_StrictFrom(gtfsshape, from, to, i, first, haveFirst) ==
    IF i >= Len(gtfsshape)
    THEN [first |-> first, last |-> Len(gtfsshape) - 1]
    ELSE LET d == gtfsshape[i + 1].Dist_traveled IN
         IF IsNaN(d)
         THEN [first |-> 0, last |-> Len(gtfsshape) - 1]
         ELSE LET f  == IF ~haveFirst /\ d > from THEN i ELSE first
                  hf == haveFirst \/ d > from
              IN  IF hf /\ d > to
                  THEN [first |-> f, last |-> i - 1]
                  ELSE ShpScan_StrictFrom(gtfsshape, from, to, i + 1, f, hf)

\* variant of the scan: a point without distance resets last but not first
RECURSIVE ShpScan_KeepFirst(_, _, _, _, _, _)
ShpScan_KeepFirst(gtfsshape, from, to, i, first, haveFirst) ==
    IF i >= Len(gtfsshape)
    THEN [first |-> first, last |-> Len(gtfsshape) - 1]
    ELSE LET d == gtfsshape[i + 1].Dist_traveled IN
         IF IsNaN(d)
         THEN [first |-> first, last |-> Len(gtfsshape) - 1]
         ELSE LET f  == IF ~haveFirst /\ d >= from THEN i ELSE first
                  hf == haveFirst \/ d >= from
              IN  IF hf /\ d > to
                  THEN [first |-> f, last |-> i - 1]
                  ELSE ShpScan_KeepFirst(gtfsshape, from, to, i + 1, f, hf)

\* the boundary scan of gtfsShapePointsToShpLinePoints
RECURSIVE ShpScan(_, _, _, _, _, _)
ShpScan(gtfsshape, from, to, i, first, haveFirst) ==
    IF i >= Len(gtfsshape)
    THEN [first |-> first, last |-> Len(gtfsshape) - 1]
    ELSE LET d == gtfsshape[i + 1].Dist_traveled IN
         IF IsNaN(d)
         THEN [first |-> 0, last |-> Len(gtfsshape) - 1]
         ELSE LET f  == IF ~haveFirst /\ d >= from THEN i ELSE first
                  hf == haveFirst \/ d >= from
              IN  IF hf /\ d > to
                  THEN [first |-> f, last |-> i - 1]
                  ELSE ShpScan(gtfsshape, from, to, i + 1, f, hf)

\* variant of the guard of the scan: only from is tested
ShpRange_FromOnly(gtfsshape, from, to) ==
    IF ~IsNaN(from)
    THEN ShpScan(gtfsshape, from, to, 0, 0, FALSE)
    ELSE [first |-> 0, last |-> Len(gtfsshape) - 1]

\* lines 630-655: first and last
ShpRange(gtfsshape, from, to) ==
    IF ~IsNaN(from) /\ ~IsNaN(to)
    THEN ShpScan(gtfsshape, from, to, 0, 0, FALSE)
    ELSE [first |-> 0, last |-> Len(gtfsshape) - 1]

\* sw.outProj = nil: the point is written as shp.Point{lon, lat}
ShpPoint(lon, lat) == [X |-> lon, Y |-> lat]

\* variant of the interpolation: the distance of a is not subtracted
ShpInterpolate_NoOffset(a, b, at) ==
    LET latdiff  == b.Lat - a.Lat
        londiff  == b.Lon - a.Lon
        dMeasure == b.Dist_traveled - a.Dist_traveled
        lat      == a.Lat + (latdiff \div dMeasure) * at
        lon      == a.Lon + (londiff \div dMeasure) * at
    IN  ShpPoint(lon, lat)

\* variant of the interpolation: the offset is added to the position of b
ShpInterpolate_FromEnd(a, b, at) ==
    LET latdiff  == b.Lat - a.Lat
        londiff  == b.Lon - a.Lon
        dMeasure == b.Dist_traveled - a.Dist_traveled
        lat      == b.Lat + (latdiff \div dMeasure) * (at - a.Dist_traveled)
        lon      == b.Lon + (londiff \div dMeasure) * (at - a.Dist_traveled)
    IN  ShpPoint(lon, lat)

\* lines 658-671 and 684-697: the point at distance at on the line through a
\* and b
ShpInterpolate(a, b, at) ==
    LET latdiff  == b.Lat - a.Lat
        londiff  == b.Lon - a.Lon
        dMeasure == b.Dist_traveled - a.Dist_traveled
        lat      == a.Lat + (latdiff \div dMeasure) * (at - a.Dist_traveled)
        lon      == a.Lon + (londiff \div dMeasure) * (at - a.Dist_traveled)
    IN  ShpPoint(lon, lat)

\* the slice returned; panic is TRUE when the run ends in an
\* index-out-of-range panic (gtfsshape[last], last = -1) and nothing is returned
gtfsShapePointsToShpLinePoints(gtfsshape, from, to) ==
    LET r     == ShpRange(gtfsshape, from, to)
        first == r.first
        last  == r.last
        head  == IF first > 0
                 THEN << ShpInterpolate(gtfsshape[first], gtfsshape[first + 1], from) >>
                 ELSE << >>
        mid   == [k \in 1..(last - first + 1) |->
                     ShpPoint(gtfsshape[first + k].Lon, gtfsshape[first + k].Lat)]
        tail  == IF last < Len(gtfsshape) - 1
                 THEN << ShpInterpolate(gtfsshape[last + 1], gtfsshape[last + 2], to) >>
                 ELSE << >>
    IN  IF last < Len(gtfsshape) - 1 /\ last < 0
        THEN [panic |-> TRUE, ret |-> << >>]
        ELSE [panic |-> FALSE, ret |-> head \o mid \o tail]

\* ------------------------------------------------------------ inputs
\* a shape point: on the equator, at a grid distance or without distance
ShapePoint == [Lat : {Deg(0)},
               Lon : {Deg(n) : n \in 0..MaxCoord},
               Dist_traveled : GridDists \cup {NaN}]

\* the defined distances of a shape never decrease (shape_dist_traveled is
\* cumulative along the shape)
NonDecreasing(pts) ==
    \A i, j \in 1..Len(pts) :
        (i < j /\ ~IsNaN(pts[i].Dist_traveled) /\ ~IsNaN(pts[j].Dist_traveled))
            => pts[i].Dist_traveled <= pts[j].Dist_traveled

\* the shape runs east along the equator
Eastward(pts) == \A i, j \in 1..Len(pts) : i < j => pts[i].Lon <= pts[j].Lon

\* the shapes handed to the geometry functions: 1 .. MaxPts points
ShapePointSeqs ==
    {pts \in UNION {[1..n -> ShapePoint] : n \in 1..MaxPts} :
        NonDecreasing(pts) /\ Eastward(pts)}

\* --------------------------------------------------------------- the feed
Nil == "nil"

\* most trips of the feed
MaxTrips == 2

TripId(i) == "t" \o ToString(i)

TripIds == {TripId(i) : i \in 1..MaxTrips}

\* routes.txt: the route ids and their route_type
RouteIds == {"r1", "r2"}

RouteType(r) == IF r = "r1" THEN 3 ELSE 1

\* stops.txt: position, wheelchair_boarding and parent_station of every stop
Stops ==
    [s \in {"s1", "s2", "s3", "p1"} |->
        CASE s = "s1" -> [Lat |-> Deg(0), Lon |-> Deg(0),
                          Wheelchair_boarding |-> 1, Parent_station |-> Nil]
          [] s = "s2" -> [Lat |-> Deg(0), Lon |-> Deg(1),
                          Wheelchair_boarding |-> 0, Parent_station |-> "p1"]
          [] s = "s3" -> [Lat |-> Deg(0), Lon |-> Deg(2),
                          Wheelchair_boarding |-> 0, Parent_station |-> Nil]
          [] s = "p1" -> [Lat |-> Deg(0), Lon |-> Deg(1),
                          Wheelchair_boarding |-> 1, Parent_station |-> Nil]]

\* calendar.txt / calendar_dates.txt: first and last active day and the active
\* days of a service
Services ==
    [v \in {"daily", "gap", "none"} |->
        CASE v = "daily" -> [first |-> 1, last |-> 10, active |-> 1..10]
          [] v = "gap" -> [first |-> 1, last |-> 3, active |-> {1, 3}]
          [] v = "none" -> [first |-> 1, last |-> 3, active |-> {}]]

\* a distance that differs from 500 and is formatted like 500 ("500.0")
Near500 == GridDist(1) + 1

\* shapes.txt: the second shape id is the aggregation key of a sub-range of the
\* first; the points of "A" are on the 500 grid, "B" spans 0 .. 2000 with two
\* points and the second shape starts just behind distance 500
ShapeA == "A"
ShapeK == "A%%%%%500.0:1000.0"
ShapeB == "B"

ShapeIds == {ShapeA, ShapeK, ShapeB}

Pt(lon, k) == [Lat |-> Deg(0), Lon |-> Deg(lon), Dist_traveled |-> GridDist(k)]

Shapes ==
    [id \in ShapeIds |->
        CASE id = ShapeA -> [Id |-> id, Points |-> <<Pt(0, 0), Pt(1, 1), Pt(2, 2)>>]
          [] id = ShapeK ->
                [Id |-> id,
                 Points |-> <<[Pt(0, 0) EXCEPT !.Dist_traveled = Near500],
                              [Pt(2, 0) EXCEPT !.Dist_traveled = Near500 + GridDist(2)]>>]
          [] id = ShapeB -> [Id |-> id, Points |-> <<Pt(0, 0), Pt(2, 4)>>]]

\* stop_times.txt: the distances of the first and the last stop time of a trip
Ranges ==
    {<<NaN, NaN>>, <<GridDist(0), GridDist(1)>>, <<GridDist(0), Near500>>,
     <<GridDist(1), GridDist(2)>>, <<Near500, GridDist(2)>>,
     <<GridDist(2), GridDist(1)>>}

StopTime(stop, dist, pickup, dropoff) ==
    [Stop |-> stop, Shape_dist_traveled |-> dist,
     Pickup_type |-> pickup, Drop_off_type |-> dropoff]

\* the stop time lists a trip can have: one stop, or two or three stops with one
\* of the ranges
StopTimeLists ==
    {<<StopTime("s1", NaN, 0, 0)>>}
    \cup {<<StopTime("s1", r[1], 0, 1), StopTime("s2", r[2], 1, 0)>> : r \in Ranges}
    \cup {<<StopTime("s3", GridDist(0), 0, 0), StopTime("s1", NaN, 1, 1),
            StopTime("s2", NaN, 0, 0)>>}

\* trips.txt: wheelchair_accessible is fixed by the trip id; the first trip is
\* on route r1 with the daily service, the second on r1 with either service or
\* on r2, every further one on r1 with the other service
TripWheelchair(id) == IF id = TripId(1) THEN 1 ELSE IF id = TripId(2) THEN 0 ELSE 2

TripVariants(id) ==
    IF id = TripId(1) THEN {<<"r1", "daily">>}
    ELSE IF id = TripId(2) THEN {<<"r1", "daily">>, <<"r1", "gap">>, <<"r2", "gap">>}
    ELSE {<<"r1", "gap">>}

Trip(id, shape, v, sts) ==
    [Id |-> id, Shape |-> shape, Route |-> v[1], StopTimes |-> sts,
     Service |-> v[2], Wheelchair_accessible |-> TripWheelchair(id)]

\* the shapes a trip can be on: any for the first two trips, the first shape
\* for every further trip
TripShapes(id) == IF id \in {TripId(1), TripId(2)} THEN ShapeIds ELSE {ShapeA}

\* the trips with id id: on a shape with any of the stop time lists, or without
\* a shape
TripsOf(id) ==
    {Trip(id, sh, v, sts) : sh \in TripShapes(id), v \in TripVariants(id), sts \in StopTimeLists}
    \cup {Trip(id, Nil, v, <<StopTime("s1", GridDist(0), 0, 0),
                             StopTime("s2", GridDist(1), 0, 0)>>) : v \in TripVariants(id)}

AllTrips == UNION {TripsOf(id) : id \in TripIds}

\* the additional trip field "__trip_count_no_count": absent, or "1" for t1,
\* "0" for t2 and no value for any further trip
NoField == [t \in {} |-> "0"]
TripsAddFldsChoices ==
    {[present |-> FALSE, vals |-> NoField],
     [present |-> TRUE,
      vals |-> [t \in {TripId(1), TripId(2)} |-> IF t = TripId(1) THEN "1" ELSE "0"]]}

\* -m: the comma separated entries of the option as strings.Split yields them
\* (an empty option is the one entry ""), for the aggregation
MotLists == {<<"">>, <<"3">>}

\* the route types strconv.Atoi can read in this model
MaxMot == 12

\* strconv.Atoi of an entry: the decimal numbers 0 .. MaxMot parse, every other
\* entry ("", "x", "1.5", " 3") is an error
Atoi(a) ==
    IF \E i \in 0..MaxMot : ToString(i) = a
    THEN [err |-> FALSE, i |-> CHOOSE i \in 0..MaxMot : ToString(i) = a]
    ELSE [err |-> TRUE, i |-> 0]

\* line 123: the entries that are mapped to true
MotEntry(a) == ~Atoi(a).err /\ Atoi(a).i >= 0 /\ Atoi(a).i < 8

\* getMotMap: the route types of the entries, as the set of the keys mapped to true
getMotMap(arr) == {Atoi(arr[k]).i : k \in {j \in 1..Len(arr) : MotEntry(arr[j])}}

\* ----------------------------------------------------------- aggregation
\* maps with a zero default (a Go map[K]int)
EmptyMap == [x \in {} |-> 0]
Get(m, k) == IF k \in DOMAIN m THEN m[k] ELSE 0
Put(m, k, v) == [x \in DOMAIN m \cup {k} |-> IF x = k THEN v ELSE m[x]]

\* the sum of the values of a function with a finite domain
RECURSIVE Sum(_)
Sum(f) ==
    IF DOMAIN f = {} THEN 0
    ELSE LET x == CHOOSE x \in DOMAIN f : TRUE
         IN  f[x] + Sum([y \in DOMAIN f \ {x} |-> f[y]])

\* the per-route unique trip count of a new record
NewRouteUniqueTripCount == EmptyMap

NewAggrShape ==
    [Shape |-> Nil, From |-> NaN, To |-> NaN, Trips |-> {}, Routes |-> {},
     RouteTripCount |-> EmptyMap, RouteUniqueTripCount |-> NewRouteUniqueTripCount,
     MeterLength |-> 0, NumStops |-> EmptyMap,
     WheelchairAccessibleTrips |-> EmptyMap, WheelchairAccessibleStops |-> EmptyMap]

\* gtfs.StopTime.HasDistanceTraveled
HasDistanceTraveled(st) == ~IsNaN(st.Shape_dist_traveled)

\* round num / den to the nearest integer, ties to the even one
RoundHalfEven(num, den) ==
    LET q == num \div den
        r == num % den
    IN  IF 2 * r < den THEN q
        ELSE IF 2 * r > den THEN q + 1
        ELSE IF q % 2 = 0 THEN q ELSE q + 1

\* strconv.FormatFloat(x, 'f', 1, 64) of a distance x >= 0
FormatFloat(x) ==
    LET tenths == RoundHalfEven(10 * x, Units(1))
    IN  ToString(tenths \div 10) \o "." \o ToString(tenths % 10)

\* lines 549-555: the key of a trip in the result map
AggrShapeId(trip) ==
    LET n == Len(trip.StopTimes) IN
    IF HasDistanceTraveled(trip.StopTimes[1]) /\ HasDistanceTraveled(trip.StopTimes[n])
    THEN trip.Shape \o "%%%%%" \o FormatFloat(trip.StopTimes[1].Shape_dist_traveled)
             \o ":" \o FormatFloat(trip.StopTimes[n].Shape_dist_traveled)
    ELSE trip.Shape

\* the skip test without the test of the number of stop times
Skipped_AnyStopCount(trip, mots) ==
    \/ trip.Shape = Nil
    \/ (mots # {} /\ RouteType(trip.Route) \notin mots)

\* line 537: the trips the loop passes over
Skipped(trip, mots) ==
    \/ trip.Shape = Nil
    \/ (mots # {} /\ RouteType(trip.Route) \notin mots)
    \/ Len(trip.StopTimes) < 2

\* the count of the stop times with neither pickup nor drop-off set to 1
NumOnOffStops_Both(trip) ==
    Cardinality({i \in 1..Len(trip.StopTimes) :
        trip.StopTimes[i].Drop_off_type # 1 /\ trip.StopTimes[i].Pickup_type # 1})

\* lines 541-547
NumOnOffStops(trip) ==
    Cardinality({i \in 1..Len(trip.StopTimes) :
        trip.StopTimes[i].Drop_off_type # 1 \/ trip.StopTimes[i].Pickup_type # 1})

\* the wheelchair stops without the test of the parent station
NumWheelchairStops_NoParent(trip) ==
    Cardinality({i \in 1..Len(trip.StopTimes) :
        Stops[trip.StopTimes[i].Stop].Wheelchair_boarding = 1})

\* lines 616-620
NumWheelchairStops(trip) ==
    Cardinality({i \in 1..Len(trip.StopTimes) :
        LET stop == Stops[trip.StopTimes[i].Stop] IN
        \/ stop.Wheelchair_boarding = 1
        \/ (stop.Parent_station # Nil /\ Stops[stop.Parent_station].Wheelchair_boarding = 1)})

\* the calendar loop stopping before the last active date
ActiveDays_BeforeEnd(service) ==
    Cardinality({d \in Services[service].first..(Services[service].last - 1) :
                    d \in Services[service].active})

\* lines 592-597: the days d of start .. end with IsActiveOn(d)
ActiveDays(service) ==
    Cardinality({d \in Services[service].first..Services[service].last :
                    d \in Services[service].active})

\* the unique count without the test of the marker
CountsUnique_Always(trip, flds) == TRUE

\* lines 600-608: does an active day of the trip count as a unique trip
CountsUnique(trip, flds) ==
    IF flds.present
    THEN ~(trip.Id \in DOMAIN flds.vals) \/ flds.vals[trip.Id] # "1"
    ELSE TRUE

\* every trip taken for the first of its key
IsNewKey_Always(id, m) == TRUE

\* line 564: the key has no record yet
IsNewKey(id, m) == id \notin DOMAIN m

\* lines 564-571: the record of a key that is not yet in the map, before its
\* length is calculated
CreateAggrShape(trip) ==
    [NewAggrShape EXCEPT
        !.Shape = trip.Shape,
        !.From = trip.StopTimes[1].Shape_dist_traveled,
        !.To = trip.StopTimes[Len(trip.StopTimes)].Shape_dist_traveled]

\* lines 573-622: the trip is added to its record
AddTrip(as, trip, flds) ==
    LET r    == trip.Route
        days == ActiveDays(trip.Service)
    IN  [as EXCEPT
            !.Trips = @ \cup {trip.Id},
            !.Routes = @ \cup {r},
            !.RouteTripCount = Put(@, r, Get(@, r) + days),
            !.RouteUniqueTripCount =
                IF days > 0 /\ CountsUnique(trip, flds) THEN Put(@, r, Get(@, r) + days) ELSE @,
            !.NumStops = Put(@, r, Get(@, r) + days * NumOnOffStops(trip)),
            !.WheelchairAccessibleTrips =
                Put(@, r, Get(@, r) + (IF trip.Wheelchair_accessible = 1 THEN days ELSE 0)),
            !.WheelchairAccessibleStops =
                Put(@, r, Get(@, r) + days * NumWheelchairStops(trip))]

\* lines 537-622: the body of the loop over the trips, for one trip; st holds
\* the two result maps, the calls of CalcMeterLength and the position
LoopBody(st, trip, mots, flds) ==
    IF Skipped(trip, mots)
    THEN st
    ELSE LET id      == AggrShapeId(trip)
             isNew   == IsNewKey(id, st.ret)
             created == CreateAggrShape(trip)
             len     == CalcMeterLength(Shapes[trip.Shape].Points, created.From, created.To)
             rs      == IF trip.Route \in DOMAIN st.routeShapes
                        THEN st.routeShapes[trip.Route] ELSE {}
             rsh     == [r \in DOMAIN st.routeShapes \cup {trip.Route} |->
                            IF r = trip.Route THEN rs \cup {id} ELSE st.routeShapes[r]]
             calls   == IF isNew THEN Put(st.calcCalls, id, Get(st.calcCalls, id) + 1)
                                 ELSE st.calcCalls
         IN  IF isNew /\ len.panic
             THEN \* CalcMeterLength panics: the record stays as created
                  [ret |-> [k \in DOMAIN st.ret \cup {id} |->
                               IF k = id THEN created ELSE st.ret[k]],
                   routeShapes |-> rsh, calcCalls |-> calls, pc |-> "panicked"]
             ELSE LET as == IF isNew
                            THEN [created EXCEPT !.MeterLength = len.MeterLength]
                            ELSE st.ret[id]
                  IN  [ret |-> [k \in DOMAIN st.ret \cup {id} |->
                                   IF k = id THEN AddTrip(as, trip, flds) ELSE st.ret[k]],
                       routeShapes |-> rsh, calcCalls |-> calls, pc |-> st.pc]

\* ------------------------------------------------------- field sizes
\* uint8(x) of an int x >= 0
uint8(x) == x % 256

min(a, b) == IF a < b THEN a ELSE b

\* the size taken from the length before it is capped
GrowSize_CastFirst(size, len) ==
    IF min(254, uint8(len)) > size THEN min(254, uint8(len)) ELSE size

\* if uint8(min(254, len(..))) > size { size = uint8(min(254, len(..))) }
GrowSize(size, len) ==
    IF uint8(min(254, len)) > size THEN uint8(min(254, len)) ELSE size

\* the size of a string field after the loop over the records, from the i-th
\* length on
RECURSIVE SizeOver(_, _, _)
SizeOver(lens, i, size) ==
    IF i > Len(lens) THEN size ELSE SizeOver(lens, i + 1, GrowSize(size, lens[i]))

\* shp.StringField, shp.NumberField, shp.FloatField
StringField(name, size) == [Name |-> name, Fieldtype |-> "C", Size |-> size, Precision |-> 0]

NumberField(name, size) == [Name |-> name, Fieldtype |-> "N", Size |-> size, Precision |-> 0]

FloatField(name, size, precision) ==
    [Name |-> name, Fieldtype |-> "F", Size |-> size, Precision |-> precision]

\* an AggrShape is given by the lengths of its strings: IdLen is len(s.Shape.Id),
\* TripIdsLen, RouteIdsLen and ShortNamesLen are the lengths of
\* GetTripIdsString(), GetRouteIdsString() and GetShortNamesString(), Routes the
\* routes of the record, each given by the lengths of its strings (AddLen is the
\* length of its value of the additional route field, NoValue without one)
\* getFieldSizesForShapes
getFieldSizesForShapes(shapes) ==
    LET n == Len(shapes) IN
    <<StringField("Id", SizeOver([i \in 1..n |-> shapes[i].IdLen], 1, 0)),
      StringField("TripIds", SizeOver([i \in 1..n |-> shapes[i].TripIdsLen], 1, 0)),
      StringField("RouteIds", SizeOver([i \in 1..n |-> shapes[i].RouteIdsLen], 1, 0)),
      StringField("RouteNames", SizeOver([i \in 1..n |-> shapes[i].ShortNamesLen], 1, 0))>>

NoValue == -1

\* the routes of all records in the order of the two nested loops
RECURSIVE RoutesOf(_, _)
RoutesOf(shapes, i) ==
    IF i > Len(shapes) THEN << >> ELSE shapes[i].Routes \o RoutesOf(shapes, i + 1)

\* the lengths of the values the routes have of the additional field
RECURSIVE AddLens(_, _)
AddLens(routes, i) ==
    IF i > Len(routes) THEN << >>
    ELSE (IF routes[i].AddLen = NoValue THEN << >> ELSE <<routes[i].AddLen>>)
             \o AddLens(routes, i + 1)

\* getFieldSizesForRouteShapes with one additional route field "fld"
getFieldSizesForRouteShapes(shapes) ==
    LET rs == RoutesOf(shapes, 1)
        n  == Len(rs)
    IN  <<StringField("Route_id", SizeOver([i \in 1..n |-> rs[i].IdLen], 1, 0)),
          StringField("Short_name", SizeOver([i \in 1..n |-> rs[i].ShortNameLen], 1, 0)),
          StringField("Long_name", SizeOver([i \in 1..n |-> rs[i].LongNameLen], 1, 0)),
          StringField("Type", SizeOver([i \in 1..n |-> rs[i].TypeLen], 1, 0)),
          NumberField("Frequency", 32),
          FloatField("Km_len", 64, 10),
          FloatField("Km_tot", 64, 10),
          StringField("Agency_name", SizeOver([i \in 1..n |-> rs[i].AgencyNameLen], 1, 0)),
          StringField("Agency_url", SizeOver([i \in 1..n |-> rs[i].AgencyUrlLen], 1, 0)),
          FloatField("Wchair_tr", 32, 10),
          FloatField("Wchair_st", 32, 10),
          StringField("fld", SizeOver(AddLens(rs, 1), 1, 0))>>

\* most records handed to the field size functions
MaxRecs == 3

\* the string lengths tried for the shape id
Lens == {0, 3, 10, 254, 255, 256, 300}

RouteLens(id, short, long, type, agency, url, add) ==
    [IdLen |-> id, ShortNameLen |-> short, LongNameLen |-> long, TypeLen |-> type,
     AgencyNameLen |-> agency, AgencyUrlLen |-> url, AddLen |-> add]

\* the other lengths of a record come in three profiles
WidthProfile(p) ==
    CASE p = 1 -> [TripIdsLen |-> 2, RouteIdsLen |-> 2, ShortNamesLen |-> 0,
                   Routes |-> <<RouteLens(3, 300, 10, 3, 0, 255, NoValue)>>]
      [] p = 2 -> [TripIdsLen |-> 255, RouteIdsLen |-> 5, ShortNamesLen |-> 254,
                   Routes |-> <<RouteLens(3, 300, 10, 3, 0, 255, NoValue),
                                RouteLens(10, 2, 254, 1, 256, 20, 300)>>]
      [] p = 3 -> [TripIdsLen |-> 12, RouteIdsLen |-> 256, ShortNamesLen |-> 3,
                   Routes |-> <<RouteLens(2, 1, 40, 2, 12, 30, 7)>>]

WidthRecords ==
    {[IdLen |-> l, TripIdsLen |-> WidthProfile(p).TripIdsLen,
      RouteIdsLen |-> WidthProfile(p).RouteIdsLen,
      ShortNamesLen |-> WidthProfile(p).ShortNamesLen,
      Routes |-> WidthProfile(p).Routes] : l \in Lens, p \in 1..3}

WidthInputs == UNION {[1..n -> WidthRecords] : n \in 0..MaxRecs}

\* ------------------------------------------------------- the writers
\* the four writers: WriteShapes, WriteRouteShapes, WriteTripsExplicit (for all
\* trips) and WriteStops
Modes == {"shapes", "routes", "trips", "stops"}

\* the writers that call getAggrShapes (lines 350 and 425)
Aggregates(mode) == mode \in {"shapes", "routes"}

\* the elements of a finite set in some order (the order of a range over a map)
RECURSIVE SeqOf(_)
SeqOf(S) ==
    IF S = {} THEN << >>
    ELSE LET x == CHOOSE x \in S : TRUE IN <<x>> \o SeqOf(S \ {x})

\* len(strings.Join(ids, ","))
JoinLen(ids) ==
    IF ids = {} THEN 0 ELSE Sum([x \in ids |-> Len(x)]) + Cardinality(ids) - 1

\* routes.txt: the lengths of the strings of a route (its short names "1" and
\* "22", the printed route type, agency name and url, no additional field)
RouteStrings(r) ==
    IF r = "r1" THEN RouteLens(Len(r), 1, 10, Len(ToString(RouteType(r))), 5, 20, NoValue)
                ELSE RouteLens(Len(r), 2, 0, Len(ToString(RouteType(r))), 5, 20, NoValue)

\* the string lengths of an AggrShape
WidthInput(as) ==
    [IdLen |-> Len(as.Shape),
     TripIdsLen |-> JoinLen(as.Trips),
     RouteIdsLen |-> JoinLen(as.Routes),
     ShortNamesLen |->
        IF as.Routes = {} THEN 0
        ELSE Sum([r \in as.Routes |-> RouteStrings(r).ShortNameLen]) + Cardinality(as.Routes) - 1,
     Routes |-> [i \in 1..Cardinality(as.Routes) |-> RouteStrings(SeqOf(as.Routes)[i])]]

\* the records of the result map as the field size functions range over them
WidthInputsOf(m) == [i \in 1..Cardinality(DOMAIN m) |-> WidthInput(m[SeqOf(DOMAIN m)[i]])]

\* trips.txt trip_headsign of a trip and stop_times.txt stop_headsign of its
\* stop times: the lengths of the two strings, NoValue for a nil pointer
Headsign(t, s) == [Trip |-> t, Stop |-> s]

\* every trip has a headsign of 8 characters and no stop headsign
AllHeadsigns == [t \in TripIds |-> Headsign(8, NoValue)]

\* no trip has a headsign
NoHeadsigns == [t \in TripIds |-> Headsign(NoValue, NoValue)]

\* getFieldSizesForTrips, for the strings the model has: the trip id, the
\* headsign and the short and long name of the route (ShortName, BlockId,
\* R_Desc, R_URL, R_Color and R_TextColor are sized in the same loop);
\* line 877 dereferences st.Headsign unchecked
getFieldSizesForTrips(ts, headsigns) ==
    LET ids == SeqOf(DOMAIN ts)
        n   == Len(ids)
    IN  IF \E id \in DOMAIN ts : headsigns[id].Trip = NoValue
        THEN [panic |-> TRUE, fields |-> << >>]
        ELSE [panic |-> FALSE,
              fields |->
                <<StringField("Id", SizeOver([i \in 1..n |-> Len(ts[ids[i]].Id)], 1, 0)),
                  StringField("Headsign",
                      SizeOver([i \in 1..n |-> headsigns[ids[i]].Trip], 1, 0)),
                  NumberField("Dir_id", 16),
                  NumberField("Wheelchr_a", 1),
                  NumberField("Bikes_alwd", 1),
                  StringField("R_ShrtName",
                      SizeOver([i \in 1..n |-> RouteStrings(ts[ids[i]].Route).ShortNameLen], 1, 0)),
                  StringField("R_LongName",
                      SizeOver([i \in 1..n |-> RouteStrings(ts[ids[i]].Route).LongNameLen], 1, 0)),
                  NumberField("R_Type", 16)>>]

\* getFieldSizesForStops, for the strings the model has: the stop id and the id
\* of the parent station (Code, Name, Desc, Zone_id, Url and Timezone are sized
\* in the same loop)
getFieldSizesForStops(stops) ==
    LET ids == SeqOf(DOMAIN stops)
        n   == Len(ids)
    IN  <<StringField("Id", SizeOver([i \in 1..n |-> Len(ids[i])], 1, 0)),
          NumberField("Location_type", 1),
          StringField("Parent_station",
              SizeOver([i \in 1..n |-> IF stops[ids[i]].Parent_station = Nil THEN 0
                                       ELSE Len(stops[ids[i]].Parent_station)], 1, 0)),
          NumberField("Wheelchair_boarding", 32)>>

\* the argument of shape.SetFields in the four writers (lines 351, 426, 123, 506)
FieldSizes(mode, m, ts, headsigns) ==
    CASE mode = "shapes" -> [panic |-> FALSE, fields |-> getFieldSizesForShapes(WidthInputsOf(m))]
      [] mode = "routes" -> [panic |-> FALSE, fields |-> getFieldSizesForRouteShapes(WidthInputsOf(m))]
      [] mode = "trips" -> getFieldSizesForTrips(ts, headsigns)
      [] mode = "stops" -> [panic |-> FALSE, fields |-> getFieldSizesForStops(Stops)]

\* the records a writer ranges over after SetFields
WriteRange(mode, m, ts) ==
    CASE mode \in {"shapes", "routes"} -> DOMAIN m
      [] mode = "trips" -> DOMAIN ts
      [] mode = "stops" -> DOMAIN Stops

\* one pass of the write loop for record x: the rows written, or a panic of the
\* extractor
\* WriteShapes 428-440, WriteRouteShapes 353-405, WriteTripsExplicit 141-247
\* (tid empty), WriteStops 508-524
WriteOne(mode, m, ts, mots, x) ==
    CASE mode \in {"shapes", "routes"} ->
            LET e == gtfsShapePointsToShpLinePoints(Shapes[m[x].Shape].Points, m[x].From, m[x].To)
            IN  [panic |-> e.panic,
                 rows |-> IF mode = "shapes" THEN 1 ELSE Cardinality(m[x].Routes)]
      [] mode = "trips" ->
            LET trip == ts[x]
                n    == Len(trip.StopTimes)
            IN  IF mots # {} /\ RouteType(trip.Route) \notin mots
                THEN [panic |-> FALSE, rows |-> 0]
                ELSE IF trip.Shape # Nil
                THEN [panic |-> gtfsShapePointsToShpLinePoints(
                                    Shapes[trip.Shape].Points,
                                    trip.StopTimes[1].Shape_dist_traveled,
                                    trip.StopTimes[n].Shape_dist_traveled).panic,
                      rows |-> 1]
                ELSE [panic |-> FALSE, rows |-> 1]
      [] mode = "stops" -> [panic |-> FALSE, rows |-> 1]

\* the trips of the feeds handed to the writers: on the first two shapes
\* without distances, with the range 0 .. 500 or with a single stop time, or
\* without a shape
WriteTrips ==
    {tr \in AllTrips :
        \/ tr.Shape = Nil
        \/ /\ tr.Shape \in {ShapeA, ShapeK}
           /\ \/ Len(tr.StopTimes) = 1
              \/ /\ Len(tr.StopTimes) = 2
                 /\ <<tr.StopTimes[1].Shape_dist_traveled, tr.StopTimes[2].Shape_dist_traveled>>
                        \in {<<NaN, NaN>>, <<GridDist(0), GridDist(1)>>}}

\* -------------------------------------------------------------- state
VARIABLES
    argShape,     \* the shape points handed to the two geometry functions
    argFrom,      \* from, a distance or NaN
    argTo,        \* to, a distance or NaN
    linePoints,   \* result of gtfsShapePointsToShpLinePoints
    meterLength,  \* result of CalcMeterLength
    step,         \* "idle", "input", "extracted", "measured"
    trips,        \* f.Trips: trip id -> trip
    tripsAddFlds, \* f.TripsAddFlds["__trip_count_no_count"]
    motList,      \* the entries of the -m option
    motMap,       \* sw.motMap: the route types mapped to true
    todo,         \* the trips the range loop of getAggrShapes has not visited
    ret,          \* getAggrShapes: key -> AggrShape
    routeShapes,  \* getAggrShapes: route -> keys
    calcCalls,    \* key -> number of CalcMeterLength calls on the record of the key
    pc,           \* "idle", "aggregating", "done", "panicked"
    fsShapes,     \* the records handed to a field size function
    fsFields,     \* the fields it returned
    fsPc,         \* "idle", "input", "shapes", "routeShapes"
    wMode,        \* the writer that runs, or "idle"
    wHeadsigns,   \* trip id -> the lengths of the trip's headsign and stop headsign
    wFields,      \* the fields set with shape.SetFields
    wSetFields,   \* the number of calls of shape.SetFields
    wRows,        \* the number of calls of shape.Write
    wTodo,        \* the records the write loop has not visited
    wPc,          \* "idle", "start", "created", "fields", "returned", "panicked"
    wTid,         \* tid: the trip id asked for, "" for none
    wFile,        \* the output file: "none", "created", "closed"
    wCalced,      \* calcedShapes: shape id -> polyline
    wOut,         \* the rows written: geometry and attributes
    wPanic        \* the message of the panic that ended the writer, "" for none

geomVars == <<argShape, argFrom, argTo, linePoints, meterLength, step>>

feedVars == <<trips, tripsAddFlds, motList, motMap>>

aggrVars == <<todo, ret, routeShapes, calcCalls, pc>>

sizeVars == <<fsShapes, fsFields, fsPc>>

outVars == <<wTid, wFile, wCalced, wOut, wPanic>>

writeVars == <<wMode, wHeadsigns, wFields, wSetFields, wRows, wTodo, wPc, outVars>>

vars == <<geomVars, feedVars, aggrVars, sizeVars, writeVars>>

NoRecords == [k \in {} |-> NewAggrShape]

NoRouteShapes == [r \in {} |-> {}]

NoLines == [s \in {} |-> << >>]

GeomIdle ==
    /\ argShape = << >>
    /\ argFrom = NaN
    /\ argTo = NaN
    /\ linePoints = [panic |-> FALSE, ret |-> << >>]
    /\ meterLength = [panic |-> FALSE, MeterLength |-> 0]
    /\ step = "idle"

AggrIdle ==
    /\ trips = [t \in {} |-> Nil]
    /\ tripsAddFlds = [present |-> FALSE, vals |-> NoField]
    /\ motList = <<"">>
    /\ motMap = {}
    /\ todo = {}
    /\ ret = NoRecords
    /\ routeShapes = NoRouteShapes
    /\ calcCalls = EmptyMap
    /\ pc = "idle"

SizeIdle ==
    /\ fsShapes = << >>
    /\ fsFields = << >>
    /\ fsPc = "idle"

WriteIdle ==
    /\ wMode = "idle"
    /\ wHeadsigns = AllHeadsigns
    /\ wFields = << >>
    /\ wSetFields = 0
    /\ wRows = 0
    /\ wTodo = {}
    /\ wPc = "idle"
    /\ wTid = ""
    /\ wFile = "none"
    /\ wCalced = NoLines
    /\ wOut = {}
    /\ wPanic = ""

\* ------------------------------------------------ getAggrShapes
\* the feed is parsed and getAggrShapes has created its two maps
Init ==
    /\ GeomIdle
    /\ SizeIdle
    /\ WriteIdle
    /\ trips \in [TripIds -> AllTrips]
    /\ \A id \in TripIds : trips[id].Id = id
    /\ tripsAddFlds \in TripsAddFldsChoices
    /\ motList \in MotLists
    /\ motMap = getMotMap(motList)
    /\ todo = TripIds
    /\ ret = NoRecords
    /\ routeShapes = NoRouteShapes
    /\ calcCalls = EmptyMap
    /\ pc = "aggregating"

\* one pass of the loop over trips (lines 536-623), for the trip the map
\* iteration yields next
ProcessTrip(tid) ==
    LET n == LoopBody([ret |-> ret, routeShapes |-> routeShapes,
                       calcCalls |-> calcCalls, pc |-> pc],
                      trips[tid], motMap, tripsAddFlds)
    IN  /\ pc = "aggregating"
        /\ tid \in todo
        /\ todo' = todo \ {tid}
        /\ ret' = n.ret
        /\ routeShapes' = n.routeShapes
        /\ calcCalls' = n.calcCalls
        /\ pc' = n.pc
        /\ UNCHANGED <<geomVars, feedVars, sizeVars, writeVars>>

\* line 625: every trip was visited, the maps are returned
Return ==
    /\ pc = "aggregating"
    /\ todo = {}
    /\ pc' = "done"
    /\ UNCHANGED <<geomVars, feedVars, sizeVars, writeVars, todo, ret, routeShapes, calcCalls>>

Next == (\E tid \in TripIds : ProcessTrip(tid)) \/ Return

Spec == Init /\ [][Next]_vars

\* ------------------------------------------------ the geometry functions
GeomInit ==
    /\ AggrIdle
    /\ SizeIdle
    /\ WriteIdle
    /\ argShape \in ShapePointSeqs
    /\ argFrom \in GridDists \cup {NaN}
    /\ argTo \in GridDists \cup {NaN}
    /\ linePoints = [panic |-> FALSE, ret |-> << >>]
    /\ meterLength = [panic |-> FALSE, MeterLength |-> 0]
    /\ step = "input"

\* WriteShapes line 429 / WriteTripsExplicit: the extractor is applied
Extract ==
    /\ step = "input"
    /\ linePoints' = gtfsShapePointsToShpLinePoints(argShape, argFrom, argTo)
    /\ step' = "extracted"
    /\ UNCHANGED <<argShape, argFrom, argTo, meterLength, feedVars, aggrVars, sizeVars, writeVars>>

\* getAggrShapes line 570: the length calculator is applied to the same input
Measure ==
    /\ step = "extracted"
    /\ meterLength' = CalcMeterLength(argShape, argFrom, argTo)
    /\ step' = "measured"
    /\ UNCHANGED <<argShape, argFrom, argTo, linePoints, feedVars, aggrVars, sizeVars, writeVars>>

GeomNext == Extract \/ Measure

SpecGeom == GeomInit /\ [][GeomNext]_vars

\* ------------------------------------------------ the field size functions
FieldsInit ==
    /\ GeomIdle
    /\ AggrIdle
    /\ WriteIdle
    /\ fsShapes \in WidthInputs
    /\ fsFields = << >>
    /\ fsPc = "input"

\* WriteShapes line 426
SizeShapes ==
    /\ fsPc = "input"
    /\ fsFields' = getFieldSizesForShapes(fsShapes)
    /\ fsPc' = "shapes"
    /\ UNCHANGED <<geomVars, feedVars, aggrVars, writeVars, fsShapes>>

\* WriteRouteShapes line 351
SizeRouteShapes ==
    /\ fsPc = "input"
    /\ fsFields' = getFieldSizesForRouteShapes(fsShapes)
    /\ fsPc' = "routeShapes"
    /\ UNCHANGED <<geomVars, feedVars, aggrVars, writeVars, fsShapes>>

FieldsNext == SizeShapes \/ SizeRouteShapes

SpecFields == FieldsInit /\ [][FieldsNext]_vars

\* ------------------------------------------------ the writers
\* a writer has created its shapefile (shp.Create); WriteShapes and
\* WriteRouteShapes call getAggrShapes next
WriteInit ==
    /\ GeomIdle
    /\ SizeIdle
    /\ wMode \in Modes
    /\ trips \in [TripIds -> WriteTrips]
    /\ \A id \in TripIds : trips[id].Id = id
    /\ tripsAddFlds = [present |-> FALSE, vals |-> NoField]
    /\ motList \in MotLists
    /\ motMap = getMotMap(motList)
    /\ wHeadsigns \in (IF wMode = "trips" THEN {AllHeadsigns, NoHeadsigns}
                                           ELSE {AllHeadsigns})
    /\ todo = (IF Aggregates(wMode) THEN TripIds ELSE {})
    /\ pc = (IF Aggregates(wMode) THEN "aggregating" ELSE "idle")
    /\ ret = NoRecords
    /\ routeShapes = NoRouteShapes
    /\ calcCalls = EmptyMap
    /\ wFields = << >>
    /\ wSetFields = 0
    /\ wRows = 0
    /\ wTodo = {}
    /\ wPc = "created"
    /\ wTid = ""
    /\ wFile = "created"
    /\ wCalced = NoLines
    /\ wOut = {}
    /\ wPanic = ""

\* the writer is at its call of shape.SetFields
CanSetFields_Early == wPc = "created"

\* lines 350-351 and 425-426: SetFields follows the return of getAggrShapes;
\* lines 123 and 506: it is the first statement after shp.Create
CanSetFields == wPc = "created" /\ (Aggregates(wMode) => pc = "done")

\* shape.SetFields(sw.getFieldSizesFor...(...)) and the start of the write loop
SetFields ==
    LET f == FieldSizes(wMode, ret, trips, wHeadsigns) IN
    /\ CanSetFields
    /\ IF f.panic
       THEN /\ wPc' = "panicked"
            /\ wPanic' = "nil pointer dereference"
            /\ wFile' = "closed"
            /\ UNCHANGED <<wFields, wSetFields, wTodo>>
       ELSE /\ wFields' = f.fields
            /\ wSetFields' = wSetFields + 1
            /\ wTodo' = WriteRange(wMode, ret, trips)
            /\ wPc' = "fields"
            /\ UNCHANGED <<wPanic, wFile>>
    /\ UNCHANGED <<geomVars, feedVars, aggrVars, sizeVars, wMode, wHeadsigns, wRows,
                   wTid, wCalced, wOut>>

\* one pass of the write loop, for the record the map iteration yields next
WriteRecord(x) ==
    LET w == WriteOne(wMode, ret, trips, motMap, x) IN
    /\ wPc = "fields"
    /\ x \in wTodo
    /\ IF w.panic
       THEN /\ wPc' = "panicked"
            /\ UNCHANGED <<wRows, wTodo>>
       ELSE /\ wRows' = wRows + w.rows
            /\ wTodo' = wTodo \ {x}
            /\ wPc' = wPc
    /\ UNCHANGED <<geomVars, feedVars, aggrVars, sizeVars, wMode, wHeadsigns, wFields, wSetFields, outVars>>

\* the write loop is over, the writer returns n
WriteReturn ==
    /\ wPc = "fields"
    /\ wTodo = {}
    /\ wPc' = "returned"
    /\ UNCHANGED <<geomVars, feedVars, aggrVars, sizeVars, wMode, wHeadsigns, wFields,
                   wSetFields, wRows, wTodo, outVars>>

WriteNext ==
    \/ \E tid \in TripIds : ProcessTrip(tid)
    \/ Return
    \/ SetFields
    \/ \E x \in wTodo : WriteRecord(x)
    \/ WriteReturn

SpecWrite == WriteInit /\ [][WriteNext]_vars

\* ------------------------------------------------ the per-route outputs
\* a float64: a fraction num / den, NaN or +Inf
Float(class, num, den) == [class |-> class, num |-> num, den |-> den]

\* the division guarded against a zero divisor, giving 0
FloatDiv_ZeroForZero(a, b) ==
    IF b = 0 THEN Float("finite", 0, 1) ELSE Float("finite", a, b)

\* float64(a) / float64(b) of two ints a, b >= 0 (lines 307, 317, 318, 385 and
\* 388): 0 / 0 is NaN and a / 0 is +Inf, a float division does not panic
FloatDiv(a, b) ==
    IF b = 0
    THEN (IF a = 0 THEN Float("NaN", 0, 0) ELSE Float("+Inf", 0, 0))
    ELSE Float("finite", a, b)

\* x / 1000 of a float64 x
Km(x) == IF x.class = "finite" THEN Float("finite", x.num, x.den * 1000) ELSE x

\* the feeds of the per-route outputs: every trip is on the first shape, without
\* distances, on either route, with the daily service or with the service
\* without an active day; its stops are both open and accessible, or closed
\* for pickup and drop-off with one accessible stop, or open and not accessible
RouteStopLists ==
    {<<StopTime("s1", NaN, 0, 1), StopTime("s2", NaN, 1, 0)>>,
     <<StopTime("s1", NaN, 1, 1), StopTime("s3", NaN, 1, 1)>>,
     <<StopTime("s3", NaN, 0, 0), StopTime("s3", NaN, 0, 0)>>}

RouteTrips ==
    {Trip(id, ShapeA, <<r, v>>, sts) :
        id \in TripIds, r \in RouteIds, v \in {"daily", "none"}, sts \in RouteStopLists}

\* WriteRouteShapes and WriteRouteOverviewCsv
RouteModes == {"routes", "csv"}

\* WriteRouteShapes lines 360-388: the attributes of the row of record x and
\* route r (the strings of the route are left out)
RouteShapeRow(m, x, r) ==
    [Key |-> x, Route |-> r,
     Frequency |-> Get(m[x].RouteTripCount, r),
     Wchair_tr |-> FloatDiv(Get(m[x].WheelchairAccessibleTrips, r),
                            Get(m[x].RouteTripCount, r)),
     Wchair_st |-> FloatDiv(Get(m[x].WheelchairAccessibleStops, r),
                            Get(m[x].NumStops, r))]

\* WriteRouteOverviewCsv, lines 290-292: the raw trip count of a route summed
\* over the keys the route touches
totFreq(route) ==
    IF route \in DOMAIN routeShapes
    THEN Sum([k \in routeShapes[route] |-> Get(ret[k].RouteTripCount, route)])
    ELSE 0

\* line 294
uniqueAggregatedFreq(route) ==
    Sum([k \in routeShapes[route] |-> Get(ret[k].RouteUniqueTripCount, route)])

\* line 296
totMeterLength(route) ==
    Sum([k \in routeShapes[route] |->
            ret[k].MeterLength * Get(ret[k].RouteTripCount, route)])

\* line 301
wheelchairTripsTot(route) ==
    Sum([k \in routeShapes[route] |-> Get(ret[k].WheelchairAccessibleTrips, route)])

\* line 302
wheelchairStopsTot(route) ==
    Sum([k \in routeShapes[route] |-> Get(ret[k].WheelchairAccessibleStops, route)])

\* line 303
numStopsTot(route) ==
    Sum([k \in routeShapes[route] |-> Get(ret[k].NumStops, route)])

\* lines 306-318: the numbers of the line of a route
CsvRow(route) ==
    [Route |-> route,
     Frequency |-> uniqueAggregatedFreq(route),
     Km_len |-> Km(FloatDiv(totMeterLength(route), totFreq(route))),
     Wchair_tr |-> FloatDiv(wheelchairTripsTot(route), totFreq(route)),
     Wchair_st |-> FloatDiv(wheelchairStopsTot(route), numStopsTot(route))]

\* WriteRouteShapes has created its shapefile, WriteRouteOverviewCsv its file
\* and has written the headers; both call getAggrShapes next
RoutesInit ==
    /\ GeomIdle
    /\ SizeIdle
    /\ wMode \in RouteModes
    /\ trips \in [TripIds -> RouteTrips]
    /\ \A id \in TripIds : trips[id].Id = id
    /\ tripsAddFlds = [present |-> FALSE, vals |-> NoField]
    /\ motList = <<"">>
    /\ motMap = getMotMap(motList)
    /\ wHeadsigns = AllHeadsigns
    /\ todo = TripIds
    /\ pc = "aggregating"
    /\ ret = NoRecords
    /\ routeShapes = NoRouteShapes
    /\ calcCalls = EmptyMap
    /\ wFields = << >>
    /\ wSetFields = 0
    /\ wRows = 0
    /\ wTodo = {}
    /\ wPc = "created"
    /\ wTid = ""
    /\ wFile = "created"
    /\ wCalced = NoLines
    /\ wOut = {}
    /\ wPanic = ""

\* WriteRouteOverviewCsv line 272: getAggrShapes has returned, the loop over
\* routeShapes starts
CsvRange ==
    /\ wMode = "csv"
    /\ wPc = "created"
    /\ pc = "done"
    /\ wTodo' = DOMAIN routeShapes
    /\ wPc' = "fields"
    /\ UNCHANGED <<geomVars, feedVars, aggrVars, sizeVars, wMode, wHeadsigns, wFields,
                   wSetFields, wRows, outVars>>

\* WriteRouteShapes lines 353-406: the rows of the record x, one for each of
\* its routes
WriteRouteRows(x) ==
    LET e == gtfsShapePointsToShpLinePoints(Shapes[ret[x].Shape].Points, ret[x].From, ret[x].To)
    IN  /\ wMode = "routes"
        /\ wPc = "fields"
        /\ x \in wTodo
        /\ IF e.panic
           THEN /\ wPc' = "panicked"
                /\ wPanic' = "index out of range"
                /\ wFile' = "closed"
                /\ UNCHANGED <<wRows, wTodo, wOut>>
           ELSE /\ wOut' = wOut \cup {RouteShapeRow(ret, x, r) : r \in ret[x].Routes}
                /\ wRows' = wRows + Cardinality(ret[x].Routes)
                /\ wTodo' = wTodo \ {x}
                /\ UNCHANGED <<wPc, wPanic, wFile>>
        /\ UNCHANGED <<geomVars, feedVars, aggrVars, sizeVars, wMode, wHeadsigns, wFields,
                       wSetFields, wTid, wCalced>>

\* WriteRouteOverviewCsv lines 272-331: the line of a route
WriteCsvRow(route) ==
    /\ wMode = "csv"
    /\ wPc = "fields"
    /\ route \in wTodo
    /\ wOut' = wOut \cup {CsvRow(route)}
    /\ wTodo' = wTodo \ {route}
    /\ UNCHANGED <<geomVars, feedVars, aggrVars, sizeVars, wMode, wHeadsigns, wFields,
                   wSetFields, wRows, wPc, wTid, wFile, wCalced, wPanic>>

RoutesNext ==
    \/ \E tid \in TripIds : ProcessTrip(tid)
    \/ Return
    \/ (wMode = "routes" /\ SetFields)
    \/ CsvRange
    \/ \E x \in DOMAIN ret : WriteRouteRows(x)
    \/ \E route \in RouteIds : WriteCsvRow(route)
    \/ WriteReturn

SpecRoutes == RoutesInit /\ [][RoutesNext]_vars

\* ------------------------------------------------ the explicit trip outputs
\* gtfsStopToShpPoint with sw.outProj = nil
gtfsStopToShpPoint(stop) == ShpPoint(Stops[stop].Lon, Stops[stop].Lat)

\* gtfsStationPointsToShpLinePoints: the positions of the stops of the stop times
gtfsStationPointsToShpLinePoints(stoptimes) ==
    [i \in 1..Len(stoptimes) |-> gtfsStopToShpPoint(stoptimes[i].Stop)]

\* WriteTripsExplicit and WriteTripStops
ExplicitModes == {"trips", "tripStops"}

\* a trip id that is not in the feed
UnknownTrip == "t0"

\* tid: none, the first trip of the feed, or an unknown trip
Tids == {"", TripId(1), UnknownTrip}

\* the headsigns of the feeds of the explicit trip output: every trip with a
\* headsign; every trip with a short headsign and a longer stop headsign; the
\* first trip without headsign; every trip with a headsign of 300 characters
HeadsignChoices ==
    {AllHeadsigns,
     [t \in TripIds |-> Headsign(3, 10)],
     [t \in TripIds |-> IF t = TripId(1) THEN Headsign(NoValue, NoValue)
                                         ELSE Headsign(8, NoValue)],
     [t \in TripIds |-> Headsign(300, NoValue)]}

\* -m for the explicit trip output: empty, "3", "11" and "1,x"
ExplicitMotLists == {<<"">>, <<"3">>, <<"11">>, <<"1", "x">>}

\* a row of the shapefile: the id written to field 0, the number of the
\* segment (0 when the row is the whole trip), the points of the geometry and
\* the length of the string written to the Headsign field (NoValue for none);
\* attrs is FALSE for a geometry whose attributes were not written
Row(id, seg, points, headsign, attrs) ==
    [Id |-> id, Seg |-> seg, Points |-> points, Headsign |-> headsign, Attrs |-> attrs]

\* lines 146-165: the geometries of the stop pairs of the selected trip; with
\* a shape the extract between the two stops, without a shape parts[0] of the
\* empty slice parts is indexed (index out of range)
SegmentLines(trip) ==
    [i \in 1..(Len(trip.StopTimes) - 1) |->
        IF trip.Shape # Nil
        THEN gtfsShapePointsToShpLinePoints(Shapes[trip.Shape].Points,
                                            trip.StopTimes[i].Shape_dist_traveled,
                                            trip.StopTimes[i + 1].Shape_dist_traveled)
        ELSE [panic |-> TRUE, ret |-> << >>]]

\* the first segment whose geometry panics, 0 for none
FirstPanic(lines) ==
    IF \E i \in 1..Len(lines) : lines[i].panic
    THEN CHOOSE i \in 1..Len(lines) :
            lines[i].panic /\ \A j \in 1..(i - 1) : ~lines[j].panic
    ELSE 0

\* lines 171-175: the headsign written for a stop pair of the selected trip
StopHeadsign(h) == IF h.Stop # NoValue THEN h.Stop ELSE h.Trip

\* lines 141-247: one pass of the loop over the trips, for trip x; calced is
\* calcedShapes
WriteExplicit(ts, mots, heads, tid, calced, x) ==
    LET trip == ts[x]
        n    == Len(trip.StopTimes)
    IN  IF mots # {} /\ RouteType(trip.Route) \notin mots
        THEN [panic |-> FALSE, rows |-> {}, n |-> 0, calced |-> calced]
        ELSE IF tid # ""
        THEN LET lines == SegmentLines(trip)
                 k     == FirstPanic(lines)
             IN  IF k > 0
                 THEN [panic |-> TRUE,
                       rows |-> {Row(x, i, lines[i].ret, NoValue, FALSE) : i \in 1..(k - 1)},
                       n |-> 0, calced |-> calced]
                 ELSE [panic |-> FALSE,
                       rows |-> {Row(x, i, lines[i].ret, StopHeadsign(heads[x]), TRUE) :
                                    i \in 1..(n - 1)},
                       n |-> n - 1, calced |-> calced]
        ELSE IF trip.Shape # Nil
        THEN LET from == IF n > 0 THEN trip.StopTimes[1].Shape_dist_traveled ELSE NaN
                 to   == IF n > 0 THEN trip.StopTimes[n].Shape_dist_traveled ELSE NaN
                 e    == gtfsShapePointsToShpLinePoints(Shapes[trip.Shape].Points, from, to)
                 val  == IF trip.Shape \in DOMAIN calced THEN calced[trip.Shape] ELSE e.ret
             IN  IF e.panic
                 THEN [panic |-> TRUE, rows |-> {}, n |-> 0, calced |-> calced]
                 ELSE [panic |-> FALSE,
                       rows |-> {Row(x, 0, val, heads[x].Trip, TRUE)},
                       n |-> 1,
                       calced |-> [s \in DOMAIN calced \cup {trip.Shape} |->
                                      IF s = trip.Shape THEN val ELSE calced[s]]]
        ELSE [panic |-> FALSE,
              rows |-> {Row(x, 0, gtfsStationPointsToShpLinePoints(trip.StopTimes),
                            heads[x].Trip, TRUE)},
              n |-> 1, calced |-> calced]

\* getFieldSizesForTripStops, for the strings the model has: the stop id and
\* the id of the parent station
getFieldSizesForTripStops(trip) ==
    LET n == Len(trip.StopTimes) IN
    <<StringField("Id", SizeOver([i \in 1..n |-> Len(trip.StopTimes[i].Stop)], 1, 0)),
      NumberField("Location_type", 1),
      StringField("Parent_station",
          SizeOver([i \in 1..n |->
                      IF Stops[trip.StopTimes[i].Stop].Parent_station = Nil THEN 0
                      ELSE Len(Stops[trip.StopTimes[i].Stop].Parent_station)], 1, 0)),
      NumberField("Wheelchair_boarding", 32),
      NumberField("Sequence", 32),
      StringField("Arrival", 8),
      StringField("Departure", 8),
      FloatField("ShapeDistTraveled", 64, 10)>>

\* WriteTripsExplicit or WriteTripStops is called
ExplicitInit ==
    /\ GeomIdle
    /\ SizeIdle
    /\ wMode \in ExplicitModes
    /\ wTid \in Tids
    /\ trips \in [TripIds -> WriteTrips]
    /\ \A id \in TripIds : trips[id].Id = id
    /\ tripsAddFlds = [present |-> FALSE, vals |-> NoField]
    /\ motList \in (IF wMode = "trips" THEN ExplicitMotLists ELSE {<<"">>})
    /\ motMap = getMotMap(motList)
    /\ wHeadsigns \in (IF wMode = "trips" THEN HeadsignChoices ELSE {AllHeadsigns})
    /\ todo = {}
    /\ pc = "idle"
    /\ ret = NoRecords
    /\ routeShapes = NoRouteShapes
    /\ calcCalls = EmptyMap
    /\ wFields = << >>
    /\ wSetFields = 0
    /\ wRows = 0
    /\ wTodo = {}
    /\ wPc = "start"
    /\ wFile = "none"
    /\ wCalced = NoLines
    /\ wOut = {}
    /\ wPanic = ""

\* lines 116-121 and 447-452: shp.Create and the deferred shape.Close
Create ==
    /\ wPc = "start"
    /\ wFile' = "created"
    /\ wPc' = "created"
    /\ UNCHANGED <<geomVars, feedVars, aggrVars, sizeVars, wMode, wHeadsigns, wFields,
                   wSetFields, wRows, wTodo, wTid, wCalced, wOut, wPanic>>

\* WriteTripsExplicit lines 128-138: all trips, or the trip asked for
SelectTrips ==
    /\ wMode = "trips"
    /\ wPc = "fields"
    /\ IF wTid = ""
       THEN /\ wPc' = "selected"
            /\ UNCHANGED <<wTodo, wPanic, wFile>>
       ELSE IF wTid \in DOMAIN trips
       THEN /\ wTodo' = {wTid}
            /\ wPc' = "selected"
            /\ UNCHANGED <<wPanic, wFile>>
       ELSE /\ wPc' = "panicked"
            /\ wPanic' = "Trip not found"
            /\ wFile' = "closed"
            /\ UNCHANGED wTodo
    /\ UNCHANGED <<geomVars, feedVars, aggrVars, sizeVars, wMode, wHeadsigns, wFields,
                   wSetFields, wRows, wTid, wCalced, wOut>>

\* WriteTripsExplicit lines 141-248: one pass of the loop, for the trip the
\* map iteration yields next
WriteTrip(x) ==
    LET w == WriteExplicit(trips, motMap, wHeadsigns, wTid, wCalced, x) IN
    /\ wMode = "trips"
    /\ wPc = "selected"
    /\ x \in wTodo
    /\ wOut' = wOut \cup w.rows
    /\ IF w.panic
       THEN /\ wPc' = "panicked"
            /\ wPanic' = "index out of range"
            /\ wFile' = "closed"
            /\ UNCHANGED <<wRows, wTodo, wCalced>>
       ELSE /\ wRows' = wRows + w.n
            /\ wTodo' = wTodo \ {x}
            /\ wCalced' = w.calced
            /\ UNCHANGED <<wPc, wPanic, wFile>>
    /\ UNCHANGED <<geomVars, feedVars, aggrVars, sizeVars, wMode, wHeadsigns, wFields,
                   wSetFields, wTid>>

\* WriteTripsExplicit line 250: the loop is over, n is returned and the
\* deferred Close runs
ExplicitReturn ==
    /\ wMode = "trips"
    /\ wPc = "selected"
    /\ wTodo = {}
    /\ wPc' = "returned"
    /\ wFile' = "closed"
    /\ UNCHANGED <<geomVars, feedVars, aggrVars, sizeVars, wMode, wHeadsigns, wFields,
                   wSetFields, wRows, wTodo, wTid, wCalced, wOut, wPanic>>

\* WriteTripStops lines 454-463: the trip is looked up and the fields are set
TripStopsSetFields ==
    /\ wMode = "tripStops"
    /\ wPc = "created"
    /\ IF wTid \in DOMAIN trips
       THEN /\ wFields' = getFieldSizesForTripStops(trips[wTid])
            /\ wSetFields' = wSetFields + 1
            /\ wPc' = "fields"
            /\ UNCHANGED <<wPanic, wFile>>
       ELSE /\ wPc' = "panicked"
            /\ wPanic' = "Trip not found"
            /\ wFile' = "closed"
            /\ UNCHANGED <<wFields, wSetFields>>
    /\ UNCHANGED <<geomVars, feedVars, aggrVars, sizeVars, wMode, wHeadsigns, wRows,
                   wTodo, wTid, wCalced, wOut>>

\* WriteTripStops lines 465-491: a point for every stop time of the trip
WriteStopRows ==
    LET sts == trips[wTid].StopTimes IN
    /\ wMode = "tripStops"
    /\ wPc = "fields"
    /\ wOut' = {Row(sts[i].Stop, i, <<gtfsStopToShpPoint(sts[i].Stop)>>, NoValue, TRUE) :
                    i \in 1..Len(sts)}
    /\ wRows' = Len(sts)
    /\ wPc' = "returned"
    /\ wFile' = "closed"
    /\ UNCHANGED <<geomVars, feedVars, aggrVars, sizeVars, wMode, wHeadsigns, wFields,
                   wSetFields, wTodo, wTid, wCalced, wPanic>>

ExplicitNext ==
    \/ Create
    \/ (wMode = "trips" /\ SetFields)
    \/ SelectTrips
    \/ \E x \in TripIds : WriteTrip(x)
    \/ ExplicitReturn
    \/ TripStopsSetFields
    \/ WriteStopRows

SpecExplicit == ExplicitInit /\ [][ExplicitNext]_vars

\* ======================================================== properties
\* ---- vocabulary of the properties of the geometry functions
Dist(i) == argShape[i].Dist_traveled

AllDefined == \A i \in 1..Len(argShape) : ~IsNaN(Dist(i))

StrictlyIncreasing == \A i, j \in 1..Len(argShape) : i < j => Dist(i) < Dist(j)

Extracted == step \in {"extracted", "measured"}

Measured == step = "measured"

\* the points i .. j of the shape as they are written without interpolation
Original(i, j) == [k \in 1..(j - i + 1) |-> [X |-> argShape[i + k - 1].Lon, Y |-> argShape[i + k - 1].Lat]]

\* the point of the segment from point i to point i + 1 at distance at
Between(i, at) ==
    [X |-> argShape[i].Lon
             + ((argShape[i + 1].Lon - argShape[i].Lon) \div (Dist(i + 1) - Dist(i))) * (at - Dist(i)),
     Y |-> argShape[i].Lat
             + ((argShape[i + 1].Lat - argShape[i].Lat) \div (Dist(i + 1) - Dist(i))) * (at - Dist(i))]

\* the length of a polyline of written points
RECURSIVE PathLength(_)
PathLength(pts) ==
    IF Len(pts) < 2 THEN 0
    ELSE Abs(pts[2].X - pts[1].X) + Abs(pts[2].Y - pts[1].Y) + PathLength(Tail(pts))

\* C2 as claimed (for from <= to): whenever both
\* functions complete, the length calculated for a shape, from and to is the
\* length of the polyline the extractor emits for them.
C2_LengthMatchesGeometry ==
    (Measured /\ ~IsNaN(argFrom) /\ ~IsNaN(argTo)
        /\ argFrom <= argTo /\ ~linePoints.panic /\ ~meterLength.panic)
        => meterLength.MeterLength = PathLength(linePoints.ret)

\* C3 as claimed: with strictly increasing distances, from the distance of
\* point i and to the distance of point j >= i, the extractor returns exactly
\* the points i .. j.
C3_ExactSubsequence ==
    (Extracted /\ AllDefined /\ StrictlyIncreasing)
        => \A i, j \in 1..Len(argShape) :
               (i <= j /\ argFrom = Dist(i) /\ argTo = Dist(j))
                   => (~linePoints.panic /\ linePoints.ret = Original(i, j))

\* C3 amended: the extractor returns the points i .. j, preceded by a copy of
\* point i when i is not the first point and followed by a copy of point j when
\* j is not the last point.
C3_SubsequenceWithBoundaryCopies ==
    (Extracted /\ AllDefined /\ StrictlyIncreasing)
        => \A i, j \in 1..Len(argShape) :
               (i <= j /\ argFrom = Dist(i) /\ argTo = Dist(j))
                   => /\ ~linePoints.panic
                      /\ linePoints.ret =
                            (IF i > 1 THEN Original(i, i) ELSE << >>)
                            \o Original(i, j)
                            \o (IF j < Len(argShape) THEN Original(j, j) ELSE << >>)

C3_Witness ==
    /\ Extracted /\ AllDefined /\ StrictlyIncreasing
    /\ Len(argShape) = 3 /\ argFrom = Dist(2) /\ argTo = Dist(2)
    /\ Len(linePoints.ret) = 3

\* the first and last point as C4 names them (1-based): the first point whose
\* distance is >= from, and the point before the first point at or after it
\* whose distance is > to, or the final point
HasFirst == \E i \in 1..Len(argShape) : Dist(i) >= argFrom

ClaimedFirst == CHOOSE i \in 1..Len(argShape) :
                    Dist(i) >= argFrom /\ \A j \in 1..(i - 1) : Dist(j) < argFrom

ClaimedLast ==
    IF \E k \in ClaimedFirst..Len(argShape) : Dist(k) > argTo
    THEN (CHOOSE k \in ClaimedFirst..Len(argShape) :
              Dist(k) > argTo /\ \A j \in ClaimedFirst..(k - 1) : Dist(j) <= argTo) - 1
    ELSE Len(argShape)

ClaimedSlice ==
    (IF ClaimedFirst > 1 THEN <<Between(ClaimedFirst - 1, argFrom)>> ELSE << >>)
    \o Original(ClaimedFirst, ClaimedLast)
    \o (IF ClaimedLast < Len(argShape) THEN <<Between(ClaimedLast, argTo)>> ELSE << >>)

\* C4 as claimed: with from, to and all point distances defined (and a point at
\* or after from), the extractor emits the point interpolated at from when first
\* is not the first point, the points first .. last, and the point interpolated
\* at to when last is not the final point, and nothing else.
C4_EmittedSlice ==
    (Extracted /\ ~IsNaN(argFrom) /\ ~IsNaN(argTo) /\ AllDefined /\ HasFirst
        /\ Len(argShape) >= 2)
        => (~linePoints.panic /\ linePoints.ret = ClaimedSlice)

\* the scenario of C5: points at lon 0, 1, 2 and distances 0, 1000, 2000,
\* from = 500, to = 1500
C5_Scenario ==
    /\ Extracted
    /\ argShape = <<Pt(0, 0), Pt(1, 2), Pt(2, 4)>>
    /\ argFrom = GridDist(1)
    /\ argTo = GridDist(3)

HalfDeg(n) == (n * CoordScale) \div 2

\* C5 as claimed: the scenario yields 4 points, among them the point
\* interpolated at 500, the original point at 1000 and the point
\* interpolated at 1500.
C5_FourPoints ==
    C5_Scenario
        => /\ ~linePoints.panic
           /\ Len(linePoints.ret) = 4
           /\ \E a, b, c \in 1..Len(linePoints.ret) :
                  /\ a < b /\ b < c
                  /\ linePoints.ret[a] = [X |-> HalfDeg(1), Y |-> 0]
                  /\ linePoints.ret[b] = [X |-> Deg(1), Y |-> 0]
                  /\ linePoints.ret[c] = [X |-> HalfDeg(3), Y |-> 0]

\* C5 amended: the scenario yields 3 points: the point interpolated at 500
\* (lon 0.5), the original point at 1000 (lon 1) and the point interpolated at
\* 1500 (lon 1.5).
C5_ThreePoints ==
    C5_Scenario
        => /\ ~linePoints.panic
           /\ linePoints.ret = <<[X |-> HalfDeg(1), Y |-> 0], [X |-> Deg(1), Y |-> 0],
                                 [X |-> HalfDeg(3), Y |-> 0]>>

C5_Witness == C5_Scenario /\ Len(linePoints.ret) = 3

\* the whole shape as written, and its length
WholeShape == Original(1, Len(argShape))

HasUndefined == \E i \in 1..Len(argShape) : IsNaN(Dist(i))

\* C6 as claimed: with from and to defined and a point without distance anywhere
\* in the shape, the extractor (when it completes) returns the whole shape and
\* the length calculator sums the whole shape.
C6_AnyUndefinedWholeShape ==
    (Measured /\ ~IsNaN(argFrom) /\ ~IsNaN(argTo) /\ HasUndefined
        /\ ~linePoints.panic /\ ~meterLength.panic)
        => /\ linePoints.ret = WholeShape
           /\ meterLength.MeterLength = PathLength(WholeShape)

\* the scan meets point k: no point before k lies at or after the first point
\* with distance >= from and has a distance > to
ScanReaches(k) ==
    \A i \in 1..(k - 1) :
        ~((\E j \in 1..i : Dist(j) >= argFrom) /\ Dist(i) > argTo)

FirstUndefined == CHOOSE k \in 1..Len(argShape) :
                      IsNaN(Dist(k)) /\ \A i \in 1..(k - 1) : ~IsNaN(Dist(i))

\* C6 amended: with from and to defined, when the scan meets a point without
\* distance before it stops, the extractor returns the whole shape and the
\* length calculator sums the whole shape.
C6_ScannedUndefinedWholeShape ==
    (Measured /\ ~IsNaN(argFrom) /\ ~IsNaN(argTo) /\ HasUndefined /\ ScanReaches(FirstUndefined))
        => /\ ~linePoints.panic /\ linePoints.ret = WholeShape
           /\ ~meterLength.panic /\ meterLength.MeterLength = PathLength(WholeShape)

C6_Witness ==
    /\ Measured /\ ~IsNaN(argFrom) /\ ~IsNaN(argTo)
    /\ Len(argShape) = 3 /\ ~IsNaN(Dist(1)) /\ ~IsNaN(Dist(2)) /\ IsNaN(Dist(3))
    /\ Dist(1) < argFrom /\ Dist(2) >= argFrom /\ Dist(2) <= argTo
    /\ argShape[1].Lon # argShape[2].Lon
    /\ Len(linePoints.ret) = 3

\* the slice the scan of section 4.2 gives when it is run with an undefined
\* from or to (a comparison with an undefined value is false)
GeqFrom(i) == ~IsNaN(argFrom) /\ ~IsNaN(Dist(i)) /\ Dist(i) >= argFrom

TrimmedFirst ==
    IF \E i \in 1..Len(argShape) : GeqFrom(i)
    THEN CHOOSE i \in 1..Len(argShape) : GeqFrom(i) /\ \A j \in 1..(i - 1) : ~GeqFrom(j)
    ELSE 1

TrimmedWithUndefinedTo ==
    (IF TrimmedFirst > 1 THEN <<Between(TrimmedFirst - 1, argFrom)>> ELSE << >>)
    \o Original(TrimmedFirst, Len(argShape))

\* C7 as claimed: with from and to both undefined the extractor returns the
\* points unchanged ((x, y) = (lon, lat), same order, same number); with only to
\* undefined trimming is not skipped and the slice starts at from.
C7_SkippedOnlyWhenBothUndefined ==
    (Extracted /\ AllDefined /\ IsNaN(argTo))
        => /\ ~linePoints.panic
           /\ IsNaN(argFrom) => linePoints.ret = WholeShape
           /\ ~IsNaN(argFrom) => linePoints.ret = TrimmedWithUndefinedTo

\* C7 amended: whenever from or to is undefined the extractor returns the points
\* unchanged ((x, y) = (lon, lat), same order, same number).
C7_UnchangedWhenAnyUndefined ==
    (Extracted /\ (IsNaN(argFrom) \/ IsNaN(argTo)))
        => (~linePoints.panic /\ linePoints.ret = WholeShape)

C7_Witness ==
    /\ Extracted /\ IsNaN(argFrom) /\ IsNaN(argTo)
    /\ Len(argShape) = 3
    /\ argShape[1].Lon # argShape[2].Lon /\ argShape[1].Lon # 0
    /\ Len(linePoints.ret) = 3

\* C8 as claimed (for shapes of two or more points): with all distances defined
\* and from = to, the extractor returns at least two points.
C8_DegenerateRangeTwoPoints ==
    (Extracted /\ AllDefined /\ Len(argShape) >= 2
        /\ ~IsNaN(argFrom) /\ argFrom = argTo)
        => (~linePoints.panic /\ Len(linePoints.ret) >= 2)

\* ---- vocabulary of the properties of the aggregation
Done == pc = "done"

Kept == {t \in TripIds : ~Skipped(trips[t], motMap)}

FirstDist(t) == trips[t].StopTimes[1].Shape_dist_traveled

LastDist(t) == trips[t].StopTimes[Len(trips[t].StopTimes)].Shape_dist_traveled

HasRange(t) == ~IsNaN(FirstDist(t)) /\ ~IsNaN(LastDist(t))

Tenths(x) == RoundHalfEven(10 * x, Units(1))

\* the aggregation key of section 3: the shape and, when both boundary distances
\* are there, the two distances rounded to one decimal
KeyOf(t) ==
    IF HasRange(t)
    THEN <<trips[t].Shape, 1, Tenths(FirstDist(t)), Tenths(LastDist(t))>>
    ELSE <<trips[t].Shape, 0, 0, 0>>

SameRecord(t, u) == \E k \in DOMAIN ret : t \in ret[k].Trips /\ u \in ret[k].Trips

\* C1 as claimed: the aggregation (getAggrShapes with the CalcMeterLength call of
\* a new key) never ends in a panic.
C1_AggregationNeverPanics == pc # "panicked"

\* C9 as claimed: when the aggregation is done, two kept trips of one shape with
\* the ranges [0,500] and [500,1000] have two distinct records, and the lengths
\* of the two records sum to the length calculated for [0,1000] on that
\* shape, within 1%.
C9_AdjacentRangesAddUp ==
    Done =>
        \A t, u \in Kept :
            (/\ trips[t].Shape = trips[u].Shape
             /\ FirstDist(t) = GridDist(0) /\ LastDist(t) = GridDist(1)
             /\ FirstDist(u) = GridDist(1) /\ LastDist(u) = GridDist(2))
            => LET kt   == AggrShapeId(trips[t])
                   ku   == AggrShapeId(trips[u])
                   full == CalcMeterLength(Shapes[trips[t].Shape].Points,
                                           GridDist(0), GridDist(2))
               IN  /\ kt # ku
                   /\ kt \in DOMAIN ret /\ ku \in DOMAIN ret
                   /\ ~full.panic
                   /\ 100 * Abs(ret[kt].MeterLength + ret[ku].MeterLength - full.MeterLength)
                          <= full.MeterLength

\* C10 as claimed: when the aggregation is done, two kept trips are in the same
\* record exactly when they have the same aggregation key, and there is one
\* record per key.
C10_OneRecordPerKey ==
    Done =>
        /\ \A t, u \in Kept : SameRecord(t, u) <=> KeyOf(t) = KeyOf(u)
        /\ Cardinality(DOMAIN ret) = Cardinality({KeyOf(t) : t \in Kept})

\* ---- the records against the trips of the feed
\* the aggregation runs or has returned
Running == pc \in {"aggregating", "done"}

\* the trips the loop has visited
Visited == TripIds \ todo

\* section 3: a trip is skipped when it has no shape, or the mode filter is not
\* empty and lacks its route's type, or it has fewer than 2 stop times
ClaimSkipped(t) ==
    \/ trips[t].Shape = Nil
    \/ (motMap # {} /\ RouteType(trips[t].Route) \notin motMap)
    \/ Len(trips[t].StopTimes) < 2

\* the visited trips that are not skipped
Counted == {t \in Visited : ~ClaimSkipped(t)}

\* the key under which the record of a trip is kept
RecordKey(t) == AggrShapeId(trips[t])

\* the counted trips of key k, and those of them on route r
TripsAt(k) == {t \in Counted : RecordKey(t) = k}

TripsOn(k, r) == {t \in TripsAt(k) : trips[t].Route = r}

\* the counted trips of shape s without distance data
PlainTrips(s) == {t \in Counted : trips[t].Shape = s /\ ~HasRange(t)}

\* C11: while the aggregation runs and when it has returned, there is a record
\* for exactly the keys of the visited trips that are not skipped, the trip set
\* of the record of key k is exactly the set of those trips with key k and its
\* route set is exactly the set of their routes; the trips of one shape without
\* distance data are all in one and the same record.
C11_TripAndRouteSets ==
    Running =>
        /\ DOMAIN ret = {RecordKey(t) : t \in Counted}
        /\ \A k \in DOMAIN ret :
              /\ ret[k].Trips = TripsAt(k)
              /\ ret[k].Routes = {trips[t].Route : t \in TripsAt(k)}
        /\ \A s \in ShapeIds :
              PlainTrips(s) # {} =>
                  /\ Cardinality({k \in DOMAIN ret : ret[k].Trips \cap PlainTrips(s) # {}}) = 1
                  /\ \E k \in DOMAIN ret : PlainTrips(s) \subseteq ret[k].Trips

\* two trips of one route and one shape without distance data are in one
\* record
C11_Witness ==
    /\ Done
    /\ \E s \in ShapeIds :
          /\ Cardinality(PlainTrips(s)) >= 2
          /\ \E k \in DOMAIN ret :
                /\ ret[k].Trips = PlainTrips(s)
                /\ Cardinality(ret[k].Routes) = 1

\* section 3: the calendar days from the first to the last active date of the
\* trip's service, both included, on which the service is active
ServiceDays(t) ==
    LET sv == Services[trips[t].Service]
    IN  Cardinality({d \in sv.active : sv.first <= d /\ d <= sv.last})

\* C12: while the aggregation runs and when it has returned, the raw trip count
\* of route r in the record of key k is the sum of the active service days of
\* the visited, non-skipped trips with key k and route r, and the counts of a
\* route summed over its keys are the sum of the active service days of all
\* its visited, non-skipped trips (2 trips of a 10-day service: 20).
C12_RawTripCount ==
    Running =>
        /\ \A k \in DOMAIN ret : \A r \in RouteIds :
              Get(ret[k].RouteTripCount, r) = Sum([t \in TripsOn(k, r) |-> ServiceDays(t)])
        /\ \A r \in RouteIds :
              totFreq(r) = Sum([t \in {u \in Counted : trips[u].Route = r} |-> ServiceDays(t)])

\* two trips of route r1 with the 10-day service were counted: 20
C12_Witness ==
    /\ Done
    /\ Cardinality({t \in Counted : trips[t].Route = "r1" /\ trips[t].Service = "daily"}) = 2
    /\ Cardinality({t \in Counted : trips[t].Route = "r1"}) = 2
    /\ Cardinality(routeShapes["r1"]) = 2
    /\ totFreq("r1") = 20

\* section 3: the duplicate-suppression marker flags a trip when the feed has
\* the field "__trip_count_no_count" and its value for the trip id is "1"
Flagged(t) ==
    /\ tripsAddFlds.present
    /\ t \in DOMAIN tripsAddFlds.vals
    /\ tripsAddFlds.vals[t] = "1"

QualifyingStops(t) ==
    {i \in 1..Len(trips[t].StopTimes) :
        ~(trips[t].StopTimes[i].Pickup_type = 1 /\ trips[t].StopTimes[i].Drop_off_type = 1)}

\* C14: while the aggregation runs and when it has returned, the qualifying-stop
\* count of route r in the record of key k is the sum, over the visited,
\* non-skipped trips with key k and route r, of the trip's active service days
\* times the number of its stop times with a pickup or a drop-off; a stop time
\* with neither is not counted.
C14_QualifyingStopCount ==
    Running =>
        \A k \in DOMAIN ret : \A r \in RouteIds :
            Get(ret[k].NumStops, r)
                = Sum([t \in TripsOn(k, r) |-> ServiceDays(t) * Cardinality(QualifyingStops(t))])

\* a counted trip with three stop times, one of them without pickup and
\* drop-off, is alone in its record: two stops per active day
C14_Witness ==
    /\ Done
    /\ \E k \in DOMAIN ret : \E r \in RouteIds : \E t \in TripsOn(k, r) :
          /\ TripsOn(k, r) = {t}
          /\ Len(trips[t].StopTimes) = 3
          /\ Cardinality(QualifyingStops(t)) = 2
          /\ Get(ret[k].NumStops, r) = 2 * ServiceDays(t)
          /\ ServiceDays(t) > 0

\* section 3: the stop times of a trip at a stop that is wheelchair-boarding
\* accessible itself or through its parent station
WheelchairStops(t) ==
    {i \in 1..Len(trips[t].StopTimes) :
        LET stop == Stops[trips[t].StopTimes[i].Stop]
        IN  \/ stop.Wheelchair_boarding = 1
            \/ /\ stop.Parent_station # Nil
               /\ Stops[stop.Parent_station].Wheelchair_boarding = 1}

\* C15: while the aggregation runs and when it has returned, the wheelchair-stop
\* count of route r in the record of key k is the sum, over the visited,
\* non-skipped trips with key k and route r, of the active service days times
\* the number of the trip's stop times at an accessible stop, and the
\* wheelchair-trip count is the sum of the active service days of those trips
\* that are flagged wheelchair accessible (value 1).
C15_WheelchairCounts ==
    Running =>
        \A k \in DOMAIN ret : \A r \in RouteIds :
            /\ Get(ret[k].WheelchairAccessibleStops, r)
                  = Sum([t \in TripsOn(k, r) |-> ServiceDays(t) * Cardinality(WheelchairStops(t))])
            /\ Get(ret[k].WheelchairAccessibleTrips, r)
                  = Sum([t \in {u \in TripsOn(k, r) : trips[u].Wheelchair_accessible = 1}
                            |-> ServiceDays(t)])

\* an accessible and a not accessible trip share a record; the accessible one
\* has three stop times, one at a stop that is not accessible and one at a stop
\* that is accessible through its parent station only
C15_Witness ==
    /\ Done
    /\ \E k \in DOMAIN ret : \E r \in RouteIds : \E t, u \in TripsOn(k, r) :
          /\ trips[t].Wheelchair_accessible = 1 /\ trips[u].Wheelchair_accessible # 1
          /\ Len(trips[t].StopTimes) = 3 /\ Cardinality(WheelchairStops(t)) = 2
          /\ Get(ret[k].WheelchairAccessibleTrips, r) = ServiceDays(t)
          /\ Get(ret[k].WheelchairAccessibleStops, r)
                = 2 * ServiceDays(t) + ServiceDays(u) * Cardinality(WheelchairStops(u))

\* the Shape, From, To and MeterLength of the records that exist stay as they are
GeometryKept ==
    \A k \in DOMAIN ret :
        /\ k \in DOMAIN ret'
        /\ ret'[k].Shape = ret[k].Shape
        /\ ret'[k].From = ret[k].From
        /\ ret'[k].To = ret[k].To
        /\ ret'[k].MeterLength = ret[k].MeterLength

\* the length calculator ran once on the record of every key, and on no other
CalculatedOnce ==
    /\ DOMAIN calcCalls = DOMAIN ret
    /\ \A k \in DOMAIN ret : calcCalls[k] = 1

\* C16: in every run of the aggregation the length calculator has run exactly
\* once for every key that has a record, and no step changes the Shape, From, To
\* or MeterLength of a record that exists.
C16_LengthCalculatedOnce == [](CalculatedOnce) /\ [][GeometryKept]_vars

\* two trips whose first distances differ and round to the same tenth share a
\* record; the record has the first distance of one of them
C16_Witness ==
    /\ Done
    /\ \E k \in DOMAIN ret : \E t, u \in ret[k].Trips :
          /\ FirstDist(t) # FirstDist(u)
          /\ calcCalls[k] = 1
          /\ ret[k].MeterLength > 0

\* C17 as claimed: in every state of the aggregation every record whose From and
\* To are both defined has From <= To.
C17_FromNotAfterTo ==
    \A k \in DOMAIN ret :
        (~IsNaN(ret[k].From) /\ ~IsNaN(ret[k].To)) => ret[k].From <= ret[k].To

\* ---- the interpolated boundary points
\* from and to are defined, from <= to, and every point has a distance
TrimInput == AllDefined /\ ~IsNaN(argFrom) /\ ~IsNaN(argTo) /\ argFrom <= argTo

\* the point at distance at of the line through a and b lies between a and b:
\* the difference of the two distances is not 0 and the fraction
\* (at - a) / (b - a) is in [0, 1]
OnSegment(a, b, at) ==
    LET d == b.Dist_traveled - a.Dist_traveled
        n == at - a.Dist_traveled
    IN  /\ d # 0
        /\ \/ (d > 0 /\ 0 <= n /\ n <= d)
           \/ (d < 0 /\ d <= n /\ n <= 0)

\* the two interpolations a function computes with first and last as in r (it
\* computes the second one only when last is an index of the shape)
Interpolations(r) ==
    /\ r.first > 0 => OnSegment(argShape[r.first], argShape[r.first + 1], argFrom)
    /\ (r.last >= 0 /\ r.last < Len(argShape) - 1) =>
           OnSegment(argShape[r.last + 1], argShape[r.last + 2], argTo)

\* an emitted point is not outside the longitudes of a and b
BetweenLon(p, a, b) ==
    (a.Lon <= p.X /\ p.X <= b.Lon) \/ (b.Lon <= p.X /\ p.X <= a.Lon)

\* C27: when from <= to and every point has a distance, every interpolated
\* boundary point the extractor and the length calculator compute is taken
\* between two points whose distances differ, at a fraction in [0, 1], and the
\* points the extractor emits for them lie between the two neighbouring points
C27_InterpolationOnSegment ==
    TrimInput =>
        /\ Extracted => Interpolations(ShpRange(argShape, argFrom, argTo))
        /\ Measured => Interpolations(CalcRange(argShape, argFrom, argTo))
        /\ (Extracted /\ ~linePoints.panic) =>
              LET r == ShpRange(argShape, argFrom, argTo)
                  n == Len(linePoints.ret)
              IN  /\ r.first > 0 =>
                        BetweenLon(linePoints.ret[1], argShape[r.first], argShape[r.first + 1])
                  /\ r.last < Len(argShape) - 1 =>
                        BetweenLon(linePoints.ret[n], argShape[r.last + 1], argShape[r.last + 2])

\* both functions have run on a shape with two consecutive points at the same
\* distance and both boundary points were interpolated
C27_Witness ==
    /\ Measured /\ TrimInput
    /\ ~linePoints.panic /\ ~meterLength.panic
    /\ \E i \in 1..(Len(argShape) - 1) : Dist(i) = Dist(i + 1)
    /\ LET r == ShpRange(argShape, argFrom, argTo)
       IN  r.first > 0 /\ r.last < Len(argShape) - 1

\* C28: when from <= to and every point has a distance (and the distances do
\* not decrease), every point of the shape that the extractor emits as it is
\* has a distance d with from <= d <= to
C28_EmittedWithinRange ==
    (Extracted /\ TrimInput /\ NonDecreasing(argShape) /\ ~linePoints.panic) =>
        LET r == ShpRange(argShape, argFrom, argTo) IN
        /\ Len(linePoints.ret) >= r.last - r.first + 1
        /\ \A k \in (r.first + 1)..(r.last + 1) :
              argFrom <= Dist(k) /\ Dist(k) <= argTo

\* ---- two runs on one feed
\* the loop over the trips in the order of the trip ids, from the i-th trip on
RECURSIVE RunInOrder(_, _)
RunInOrder(i, st) ==
    IF i > MaxTrips \/ st.pc = "panicked"
    THEN st
    ELSE RunInOrder(i + 1, LoopBody(st, trips[TripId(i)], motMap, tripsAddFlds))

\* what a run produces: whether it ended in a panic, and else the keys, the
\* route-to-keys map and the trip set, route set and per-route counts of every
\* record
Outcome(st) ==
    [panic |-> st.pc = "panicked",
     routeShapes |-> IF st.pc = "panicked" THEN NoRouteShapes ELSE st.routeShapes,
     records |->
        IF st.pc = "panicked" THEN << >>
        ELSE [k \in DOMAIN st.ret |->
                 [Trips |-> st.ret[k].Trips,
                  Routes |-> st.ret[k].Routes,
                  RouteTripCount |-> st.ret[k].RouteTripCount,
                  RouteUniqueTripCount |-> st.ret[k].RouteUniqueTripCount,
                  NumStops |-> st.ret[k].NumStops,
                  WheelchairAccessibleTrips |-> st.ret[k].WheelchairAccessibleTrips,
                  WheelchairAccessibleStops |-> st.ret[k].WheelchairAccessibleStops]]]

\* C18 as claimed: a run of the aggregation that has ended, whatever the order
\* in which it visited the trips, has produced what the run over the same feed
\* in the order of the trip ids produces: the same keys, route-to-keys map, trip
\* and route sets and per-route counts.
C18_SameResultInAnyOrder ==
    pc \in {"done", "panicked"} =>
        Outcome([ret |-> ret, routeShapes |-> routeShapes, calcCalls |-> calcCalls, pc |-> pc])
            = Outcome(RunInOrder(1, [ret |-> NoRecords, routeShapes |-> NoRouteShapes,
                                     calcCalls |-> EmptyMap, pc |-> "aggregating"]))

\* C25: the From, To and MeterLength of every record of a run that has
\* returned are those of the run over the same feed in the order of the trip
\* ids (when that run returns too), whatever the order in which the trips were
\* visited
C25_RangeInAnyOrder ==
    LET inOrder == RunInOrder(1, [ret |-> NoRecords, routeShapes |-> NoRouteShapes,
                                  calcCalls |-> EmptyMap, pc |-> "aggregating"])
    IN  (pc = "done" /\ inOrder.pc # "panicked") =>
            \A k \in DOMAIN ret :
                /\ k \in DOMAIN inOrder.ret
                /\ ret[k].From = inOrder.ret[k].From
                /\ ret[k].To = inOrder.ret[k].To
                /\ ret[k].MeterLength = inOrder.ret[k].MeterLength

\* ---- the field sizes against the strings of the records
MaxOf(S) == IF S = {} THEN 0 ELSE CHOOSE m \in S : \A x \in S : x <= m

\* section 5: min(254, the largest length observed)
ResolvedWidth(S) == IF MaxOf(S) < 254 THEN MaxOf(S) ELSE 254

\* the routes of the records
SizedRoutes == UNION {{fsShapes[i].Routes[j] : j \in 1..Len(fsShapes[i].Routes)} :
                         i \in 1..Len(fsShapes)}

\* the string lengths observed for a field over all records
Observed(name) ==
    CASE name = "Id" -> {fsShapes[i].IdLen : i \in 1..Len(fsShapes)}
      [] name = "TripIds" -> {fsShapes[i].TripIdsLen : i \in 1..Len(fsShapes)}
      [] name = "RouteIds" -> {fsShapes[i].RouteIdsLen : i \in 1..Len(fsShapes)}
      [] name = "RouteNames" -> {fsShapes[i].ShortNamesLen : i \in 1..Len(fsShapes)}
      [] name = "Route_id" -> {r.IdLen : r \in SizedRoutes}
      [] name = "Short_name" -> {r.ShortNameLen : r \in SizedRoutes}
      [] name = "Long_name" -> {r.LongNameLen : r \in SizedRoutes}
      [] name = "Type" -> {r.TypeLen : r \in SizedRoutes}
      [] name = "Agency_name" -> {r.AgencyNameLen : r \in SizedRoutes}
      [] name = "Agency_url" -> {r.AgencyUrlLen : r \in SizedRoutes}
      [] name = "fld" -> {r.AddLen : r \in {q \in SizedRoutes : q.AddLen # NoValue}}

\* C19: the size of every string field a field size function returns is
\* min(254, the largest length of the field's string over all records), hence at
\* most 254 and within 8 bits; the size and precision of every numeric field
\* are those returned for no records at all.
C19_FieldWidths ==
    fsPc \in {"shapes", "routeShapes"} =>
        \A i \in 1..Len(fsFields) :
            IF fsFields[i].Fieldtype = "C"
            THEN /\ fsFields[i].Size = ResolvedWidth(Observed(fsFields[i].Name))
                 /\ fsFields[i].Size <= 254
                 /\ fsFields[i].Size < 256
            ELSE /\ fsPc = "routeShapes"
                 /\ fsFields[i] = getFieldSizesForRouteShapes(<< >>)[i]
                 /\ fsFields[i].Size \in {32, 64}

\* three records with shape ids of the lengths 3, 300 and 10: the size is 254
C19_Witness ==
    /\ fsPc = "shapes"
    /\ Len(fsShapes) = 3
    /\ fsShapes[1].IdLen = 3 /\ fsShapes[2].IdLen = 300 /\ fsShapes[3].IdLen = 10
    /\ fsFields[1].Name = "Id" /\ fsFields[1].Size = 254

\* ---- the order of a writer's run
\* the ids of all records the writer's field sizes range over
RecordIds ==
    CASE wMode = "shapes" -> {ret[k].Shape : k \in DOMAIN ret}
      [] wMode = "routes" -> UNION {ret[k].Routes : k \in DOMAIN ret}
      [] wMode = "trips" -> DOMAIN trips
      [] wMode = "stops" -> DOMAIN Stops
      [] OTHER -> {}

\* a row is written only after the one call of SetFields, which follows the
\* aggregation over all trips and sizes the id field over all records
SizedBeforeWritten ==
    /\ wRows > 0 => wSetFields = 1
    /\ wSetFields <= 1
    /\ wSetFields = 1 =>
          /\ Aggregates(wMode) => (pc = "done" /\ todo = {})
          /\ Len(wFields) > 0
          /\ wFields[1].Size = ResolvedWidth({Len(id) : id \in RecordIds})

\* once the fields are set the aggregation does not go on, and once a row is
\* written the fields stay as they are
NoResizeAfterWrite ==
    /\ wSetFields > 0 => (ret' = ret /\ routeShapes' = routeShapes)
    /\ wRows > 0 => (wFields' = wFields /\ wSetFields' = wSetFields)

\* C20: in every run of one of the four writers the aggregation (where the
\* writer aggregates) is complete before the field sizes are resolved over all
\* records and set, the first row is written only after that, and no field is
\* set or changed after a row has been written.
C20_AggregateSizeEmit == [](SizedBeforeWritten) /\ [][NoResizeAfterWrite]_vars

\* a writer that aggregates has returned with two rows written
C20_Witness ==
    /\ wPc = "returned"
    /\ wMode = "shapes"
    /\ Cardinality(DOMAIN ret) = 2
    /\ wRows = 2
    /\ wSetFields = 1
    /\ wFields[1].Size = 18

\* ---- the per-route outputs
\* a float64 that is not a number: NaN or an infinity
Undefined(x) == x.class \in {"NaN", "+Inf"}

\* the write loop has passed over x
Written(x) == wPc \in {"fields", "returned"} /\ x \notin wTodo

C26_WheelchairStopsWithinStops ==
    /\ Running =>
          \A k \in DOMAIN ret : \A r \in ret[k].Routes :
              Get(ret[k].WheelchairAccessibleStops, r) <= Get(ret[k].NumStops, r)
    /\ \A row \in wOut :
          row.Wchair_st.class = "finite" => row.Wchair_st.num <= row.Wchair_st.den

\* ---- the explicit trip outputs
\* C22: when a single-trip request fails because the trip id is not in the
\* feed, no output file has been created, no schema has been written to one and
\* no row has been written
C22_UnknownTripNoOutput ==
    wPanic = "Trip not found" =>
        /\ wTid \notin DOMAIN trips
        /\ wPc = "panicked"
        /\ wFile = "none"
        /\ wSetFields = 0
        /\ wOut = {}

\* the write loop of WriteTripsExplicit runs, has returned or has panicked
Emitting ==
    wMode = "trips" /\ (wPc \in {"selected", "returned"} \/ wPanic = "index out of range")

\* the loop has passed over trip x
Emitted(x) == Emitting /\ x \notin wTodo /\ (wTid # "" => x = wTid)

\* the route type of trip x passes the test of sw.motMap
PassesMotMap(x) == motMap = {} \/ RouteType(trips[x].Route) \in motMap

\* the position of the i-th stop of trip x
StopPosition(x, i) ==
    [X |-> Stops[trips[x].StopTimes[i].Stop].Lon, Y |-> Stops[trips[x].StopTimes[i].Stop].Lat]

\* C23: in the explicit trip output a trip without a shape is written with the
\* positions of its stops: without a selected trip one polyline through the
\* stops in stop time order, for the selected trip one segment of two points
\* for each pair of consecutive stops; and the writer does not fail on it (a
\* panic while writing leaves a trip with a shape unwritten)
C23_StopPositionsFallback ==
    /\ (wMode = "trips" /\ wPanic = "index out of range") =>
          \E x \in wTodo : trips[x].Shape # Nil
    /\ \A x \in TripIds :
          (Emitted(x) /\ trips[x].Shape = Nil /\ PassesMotMap(x)) =>
              LET n == Len(trips[x].StopTimes) IN
              IF wTid = ""
              THEN \E row \in wOut :
                      /\ row.Id = x
                      /\ row.Points = [i \in 1..n |-> StopPosition(x, i)]
              ELSE \A i \in 1..(n - 1) :
                      \E row \in wOut :
                          /\ row.Id = x /\ row.Seg = i
                          /\ row.Points = <<StopPosition(x, i), StopPosition(x, i + 1)>>

\* the -m option is empty
NoMotOption == motList = <<"">>

\* the route type of trip x is one of the entries of the -m option
Listed(x) == \E k \in 1..Len(motList) : motList[k] = ToString(RouteType(trips[x].Route))

\* C24: with a list of route types in -m only the trips whose route type is
\* listed are written, whatever the entries are; with an empty -m every trip
\* the loop has passed over is written
C24_OnlyListedRouteTypes ==
    wMode = "trips" =>
        /\ ~NoMotOption => \A row \in wOut : Listed(row.Id)
        /\ (NoMotOption /\ wTid = "") =>
              \A x \in TripIds : Emitted(x) => \E row \in wOut : row.Id = x

\* the extract of the shape of trip x for the distances of its own first and
\* last stop
OwnExtract(x) ==
    LET sts == trips[x].StopTimes
        n   == Len(sts)
    IN  gtfsShapePointsToShpLinePoints(Shapes[trips[x].Shape].Points,
            IF n > 0 THEN sts[1].Shape_dist_traveled ELSE NaN,
            IF n > 0 THEN sts[n].Shape_dist_traveled ELSE NaN).ret

\* C29: without a selected trip every trip with a shape the loop has passed
\* over is written with the extract of its shape for its own first and last
\* stop distances, also when an earlier trip used the same shape with other
\* distances
C29_OwnExtractPerTrip ==
    (wMode = "trips" /\ wTid = "") =>
        \A x \in TripIds :
            (Emitted(x) /\ trips[x].Shape # Nil /\ PassesMotMap(x)) =>
                /\ \E row \in wOut : row.Id = x
                /\ \A row \in wOut : row.Id = x => row.Points = OwnExtract(x)

\* the width of the field of the given name in the fields handed to SetFields
WidthOf(name) ==
    LET i == CHOOSE i \in 1..Len(wFields) : wFields[i].Name = name IN wFields[i].Size

\* a string of the given length is kept whole by a field of the given width,
\* or is longer than 254 characters
FitsOrOver(len, width) == len <= width \/ len > 254

\* C30: in the explicit trip output every trip id and every headsign written
\* is no longer than the width of its field or longer than 254 characters,
\* also the headsign of a stop time written for the selected trip, and the
\* field sizes are computed without a failure on a trip without headsign
C30_ExplicitStringsFit ==
    wMode = "trips" =>
        /\ wPanic # "nil pointer dereference"
        /\ \A row \in wOut :
              row.Attrs =>
                  /\ FitsOrOver(Len(row.Id), WidthOf("Id"))
                  /\ row.Headsign # NoValue =>
                        FitsOrOver(row.Headsign, WidthOf("Headsign"))

====
